---- MODULE Spec2Model ----
(***************************************************************************)
(* Image pipeline backend: /process-images, /remove-background,            *)
(* /validate-image, the router,                                            *)
(* /generate-image, /generate-variations and the ComfyUI client            *)
(* (queuePrompt, checkComfyHealth, getPromptStatus, waitForCompletion).    *)
(*                                                                         *)
(* A filename is a sequence of tokens, e.g. <<"a", ".jpg">> for "a.jpg"    *)
(* and <<"a", "_processed", ".jpg">> for "a_processed.jpg", so that the    *)
(* suffix rewriting done with String.replace is computed, not assumed.    *)
(***************************************************************************)
EXTENDS Integers, Sequences, FiniteSets, TLC

\* ------------------------------------------------------------------ bounds
MaxBatch == 2
MaxCount == 3

\* --------------------------------------------------------- program constants
TARGET_SIZE == 2048
MIN_SIZE == 512

VARIABLES
    uploads,        \* ./uploads               : filename -> image
    originals,      \* ./processed/originals   : filename -> image
    resized,        \* ./processed/resized     : filename -> normalized image
    metadataDir,    \* ./processed/metadata    : filename -> JSON record
    noBackground,   \* ./processed/no-background : filename -> segmented image
    req,            \* the batch request in progress (or idle)
    ops,            \* file operations and external calls made by the request
    response,       \* the last HTTP response sent
    served,         \* the endpoints that have answered a request so far
    gen,            \* the generation request (or direct waitForCompletion call) in progress
    wait,           \* the local state of the waitForCompletion call in progress
    job,            \* the engine's history entry for the prompt last queued
    calls,          \* requests sent to the engine, status polls excepted
    timing,         \* the delays the environment can add to a poll and to a sleep
    other           \* a second request served concurrently with the first (or idle)

fsVars == <<uploads, originals, resized, metadataDir, noBackground>>
genVars == <<gen, wait, job, calls, timing>>
vars == <<uploads, originals, resized, metadataDir, noBackground, req, ops, response, served,
          gen, wait, job, calls, timing, other>>

\* ------------------------------------------------------------------ images
\* meta: sharp(path).metadata() succeeds; decode: the pixel data decodes;
\* thumb: the 8x8 greyscale raw buffer the image downsamples to.
ImgA == [id |-> "A", meta |-> TRUE,  decode |-> TRUE,  width |-> 3000, height |-> 2000, format |-> "jpeg", thumb |-> 1]
ImgSmall == [id |-> "S", meta |-> TRUE,  decode |-> TRUE,  width |-> 400,  height |-> 300,  format |-> "png",  thumb |-> 2]
ImgTiff == [id |-> "T", meta |-> TRUE,  decode |-> TRUE,  width |-> 800,  height |-> 600,  format |-> "tiff", thumb |-> 3]
ImgTrunc == [id |-> "X", meta |-> TRUE,  decode |-> FALSE, width |-> 1024, height |-> 768,  format |-> "jpeg", thumb |-> 0]
ImgBad == [id |-> "Z", meta |-> FALSE, decode |-> FALSE, width |-> 0,    height |-> 0,    format |-> "none", thumb |-> 0]

\* a second sound image, different from ImgA
ImgB == [id |-> "B", meta |-> TRUE, decode |-> TRUE, width |-> 1024, height |-> 768, format |-> "png", thumb |-> 4]

\* The staging directory as left by /upload-images: b.png is a byte-identical
\* copy of a.jpg under another name; m.jpg is named by requests but absent.
UploadedFiles ==
    ( <<"a", ".jpg">>  :> ImgA ) @@ ( <<"b", ".png">> :> ImgA ) @@
    ( <<"c", ".jpg">>  :> ImgBad ) @@ ( <<"d", ".png">> :> ImgSmall ) @@
    ( <<"e", ".JPG">>  :> ImgTrunc ) @@ ( <<"t", ".tiff">> :> ImgTiff )

MissingFile == <<"m", ".jpg">>

RequestNames == DOMAIN UploadedFiles \cup {MissingFile}

\* the names /remove-background is asked for: normalized files by the names
\* /process-images gives them, one of which is never produced
RembgRequestNames ==
    { <<"a", "_processed", ".jpg">>, <<"b", "_processed", ".jpg">>, <<"t", ".tiff">>,
      <<"m", "_processed", ".jpg">> }

\* ------------------------------------------------------- filename rewriting
toLowerCase(tok) == IF tok = ".JPG" THEN ".jpg" ELSE tok

\* filename.replace(/\.(exts)$/i, suffix): only a trailing extension of the
\* listed ones is replaced; any other name is returned unchanged.
ReplaceExt(filename, exts, suffix) ==
    IF Len(filename) > 0 /\ toLowerCase(filename[Len(filename)]) \in exts
    THEN SubSeq(filename, 1, Len(filename) - 1) \o suffix
    ELSE filename

ProcessExts == {".jpg", ".jpeg", ".png", ".webp", ".gif"}
RembgExts == {".jpg", ".jpeg"}

processedFilename(filename) == ReplaceExt(filename, ProcessExts, <<"_processed", ".jpg">>)
metadataFilename(filename) == ReplaceExt(filename, ProcessExts, <<"_meta", ".json">>)
outputFilename(filename) == ReplaceExt(filename, RembgExts, <<"_no_bg", ".png">>)
metaFilename(filename) == ReplaceExt(filename, RembgExts, <<"_meta", ".json">>)

\* ------------------------------------------------------------ imageProcessor
\* a variant that reports every file as sound
isImageCorruptedNever(img) == FALSE

isImageCorrupted(img) == ~img.meta

Md5(buffer) == <<"md5", buffer>>

\* HashThrows stands for the rethrown decode error
HashThrows == <<"throws", 0>>

generateImageHash(img) == IF img.decode THEN Md5(img.thumb) ELSE HashThrows

Min(a, b) == IF a < b THEN a ELSE b

\* Math.round(x / y) for positive integers
RoundDiv(x, y) == (2 * x + y) \div (2 * y)

validFormats == {"jpeg", "jpg", "png", "webp", "tiff", "gif"}

\* a variant that checks the dimensions the resize will give
validateImageAfterResize(img) ==
    IF img.width = 0 \/ img.height = 0 THEN [valid |-> FALSE, error |-> "Invalid image dimensions"]
    ELSE IF Min(Min(img.width, img.height),
                RoundDiv(Min(img.width, img.height) * TARGET_SIZE,
                         IF img.width > img.height THEN img.width ELSE img.height)) < MIN_SIZE
         THEN [valid |-> FALSE, error |-> "Image too small"]
    ELSE IF img.format \notin validFormats THEN [valid |-> FALSE, error |-> "Invalid format"]
    ELSE [valid |-> TRUE, error |-> "none"]

validateImage(img) ==
    IF img.width = 0 \/ img.height = 0 THEN [valid |-> FALSE, error |-> "Invalid image dimensions"]
    ELSE IF Min(img.width, img.height) < MIN_SIZE THEN [valid |-> FALSE, error |-> "Image too small"]
    ELSE IF img.format \notin validFormats THEN [valid |-> FALSE, error |-> "Invalid format"]
    ELSE [valid |-> TRUE, error |-> "none"]

newWidth(img) ==
    IF img.width > img.height THEN Min(img.width, TARGET_SIZE)
    ELSE RoundDiv(img.width * Min(img.height, TARGET_SIZE), img.height)

\* a variant that always scales the longer side to the target size
newHeightToTarget(img) ==
    IF img.width > img.height THEN RoundDiv(img.height * TARGET_SIZE, img.width)
    ELSE TARGET_SIZE

\* Math.round((height / width) * newWidth): the quotient's distance from a
\* half is either 0 or far above the rounding error of the double arithmetic,
\* so the integer computation gives the same result
newHeight(img) ==
    IF img.width > img.height THEN RoundDiv(img.height * Min(img.width, TARGET_SIZE), img.width)
    ELSE Min(img.height, TARGET_SIZE)

\* the JPEG that sharp writes for an input image
Normalized(img) ==
    [id |-> img.id, meta |-> TRUE, decode |-> TRUE, width |-> newWidth(img),
     height |-> newHeight(img), format |-> "jpeg", thumb |-> img.thumb]

\* processImage(inputPath, outputPath): sharpOk is whether the resize/encode
\* and the following stat calls succeed; every failure is returned, not thrown
processImage(img, sharpOk) ==
    IF ~img.meta THEN [success |-> FALSE, error |-> "metadata unreadable"]
    ELSE IF ~validateImage(img).valid
         THEN [success |-> FALSE, error |-> validateImage(img).error]
    ELSE IF ~(sharpOk /\ img.decode) THEN [success |-> FALSE, error |-> "sharp failed"]
    ELSE [success |-> TRUE,
          original |-> [width |-> img.width, height |-> img.height, format |-> img.format],
          processed |-> [width |-> newWidth(img), height |-> newHeight(img), format |-> "jpeg"]]

\* the metadata sidecar written after a successful normalization
MetadataRecord(filename, img, hash) ==
    [originalFile |-> filename,
     processedFile |-> processedFilename(filename),
     uploadId |-> "unknown",
     originalSize |-> processImage(img, TRUE).original,
     processedSize |-> processImage(img, TRUE).processed,
     hash |-> hash,
     processedAt |-> "now",
     processingTime |-> "elapsed"]

\* --------------------------------------------------------------- requests
Idle == [kind |-> "idle", rev |-> "server", files |-> <<>>, i |-> 0,
         results |-> <<>>, hashes |-> {}, duplicates |-> <<>>]

NoResponse == [status |-> 0]

\* no second request in progress
NoOther == [kind |-> "idle"]

SeqsUpTo(S, n) == UNION {[1..k -> S] : k \in 0..n}

\* every name a directory of the model can hold, in ascending name order
NameOrder ==
    << <<"a", ".jpg">>, <<"a", "_processed", ".jpg">>, <<"b", ".png">>, <<"b", "_processed", ".jpg">>,
       <<"c", ".jpg">>, <<"c", "_processed", ".jpg">>, <<"d", ".png">>, <<"d", "_processed", ".jpg">>,
       <<"e", ".JPG">>, <<"e", "_processed", ".jpg">>,
       <<"image-1", ".jpg">>, <<"image-1", "_processed", ".jpg">>,
       <<"m", ".jpg">>, <<"m", "_processed", ".jpg">>, <<"t", ".tiff">> >>

Rank(f) == CHOOSE k \in DOMAIN NameOrder : NameOrder[k] = f

IsListing(S, f, up) ==
    /\ \A x \in S : \E k \in DOMAIN f : f[k] = x
    /\ \A j, k \in DOMAIN f : j < k => IF up THEN Rank(f[j]) < Rank(f[k]) ELSE Rank(f[j]) > Rank(f[k])

\* fs.readdir returns the entries in the order the file system keeps them:
\* ascending or descending by name
Listings(S) == {f \in [1..Cardinality(S) -> S] : IsListing(S, f, TRUE) \/ IsListing(S, f, FALSE)}

NewRequest(kind, rev, files) ==
    [kind |-> kind, rev |-> rev, files |-> files, i |-> 0,
     results |-> <<>>, hashes |-> {}, duplicates |-> <<>>]

\* ------------------------------------------------- POST /process-images
\* a variant that never finds a hash in the set of seen hashes
ProcessStageNoDuplicateGate(filename, hashes, copyOk, sharpOk) ==
    IF filename \notin DOMAIN uploads THEN "missing"
    ELSE IF isImageCorrupted(uploads[filename]) THEN "corrupted"
    ELSE IF generateImageHash(uploads[filename]) = HashThrows THEN "hashThrows"
    ELSE IF ~copyOk THEN "copyThrows"
    ELSE IF ~processImage(uploads[filename], sharpOk).success THEN "processFailed"
    ELSE "ok"

\* the point at which the handling of one item ends
ProcessStage(filename, hashes, copyOk, sharpOk) ==
    IF filename \notin DOMAIN uploads THEN "missing"
    ELSE IF isImageCorrupted(uploads[filename]) THEN "corrupted"
    ELSE IF generateImageHash(uploads[filename]) = HashThrows THEN "hashThrows"
    ELSE IF generateImageHash(uploads[filename]) \in hashes THEN "duplicate"
    ELSE IF ~copyOk THEN "copyThrows"
    ELSE IF ~processImage(uploads[filename], sharpOk).success THEN "processFailed"
    ELSE "ok"

\* a variant in which a failed backup copy does not fail the item
ProcessResultCopyIgnored(filename, stage, sharpOk) ==
    IF stage = "copyThrows"
    THEN [filename |-> filename, success |-> TRUE, error |-> "none"]
    ELSE IF stage = "missing"
    THEN [filename |-> filename, success |-> FALSE, error |-> "Input file not found"]
    ELSE [filename |-> filename, success |-> stage = "ok", error |-> stage]

ProcessResult(filename, stage, sharpOk) ==
    CASE stage = "missing" -> [filename |-> filename, success |-> FALSE, error |-> "Input file not found"]
      [] stage = "corrupted" -> [filename |-> filename, success |-> FALSE, error |-> "Image file is corrupted or invalid"]
      [] stage = "hashThrows" -> [filename |-> filename, success |-> FALSE, error |-> "Failed to generate hash"]
      [] stage = "duplicate" -> [filename |-> filename, success |-> FALSE, error |-> "Duplicate image detected",
                                 hash |-> generateImageHash(uploads[filename])]
      [] stage = "copyThrows" -> [filename |-> filename, success |-> FALSE, error |-> "copyFile failed"]
      [] stage = "processFailed" -> [filename |-> filename, success |-> FALSE,
                                     error |-> processImage(uploads[filename], sharpOk).error]
      [] stage = "ok" -> [filename |-> filename, success |-> TRUE,
                          original |-> processImage(uploads[filename], TRUE).original,
                          processed |-> processImage(uploads[filename], TRUE).processed,
                          hash |-> generateImageHash(uploads[filename]),
                          paths |-> [original |-> <<"originals", filename>>,
                                     processed |-> <<"resized", processedFilename(filename)>>,
                                     metadata |-> <<"metadata", metadataFilename(filename)>>]]

\* a variant that starts on the next item before the current one has ended
ProcessOpsFanOut(k, stage, metaOk) ==
    << [item |-> k, op |-> "access", arg |-> "none"],
       [item |-> k + 1, op |-> "access", arg |-> "none"] >>

\* the calls made for one item, in order
ProcessOps(k, stage, metaOk) ==
    LET op(name) == [item |-> k, op |-> name, arg |-> "none"]
    IN  CASE stage = "missing" -> <<op("access")>>
          [] stage = "corrupted" -> <<op("access"), op("isImageCorrupted")>>
          [] stage \in {"hashThrows", "duplicate"} ->
                <<op("access"), op("isImageCorrupted"), op("generateImageHash")>>
          [] stage = "copyThrows" ->
                <<op("access"), op("isImageCorrupted"), op("generateImageHash"), op("copyFile")>>
          [] stage = "processFailed" ->
                <<op("access"), op("isImageCorrupted"), op("generateImageHash"), op("copyFile"),
                  op("processImage")>>
          [] stage = "ok" ->
                <<op("access"), op("isImageCorrupted"), op("generateImageHash"), op("copyFile"),
                  op("processImage"), op("writeResized"),
                  [item |-> k, op |-> "saveMetadata", arg |-> metaOk]>>

\* outcomes of the file system calls of one item; a call that is not reached
\* because an earlier one failed has no outcome to choose
ProcessEnvs ==
    {env \in [copyOk : BOOLEAN, sharpOk : BOOLEAN, metaOk : BOOLEAN] :
        /\ ~env.copyOk => env.sharpOk /\ env.metaOk
        /\ ~env.sharpOk => env.metaOk}

StartProcessImages ==
    /\ req.kind = "idle"
    /\ served = {}
    /\ served' = {"process"}
    /\ \E filenames \in SeqsUpTo(RequestNames, MaxBatch) :
          req' = NewRequest("process", "server", filenames)
    /\ ops' = <<>>
    /\ response' = NoResponse
    /\ UNCHANGED <<uploads, originals, resized, metadataDir, noBackground>>
    /\ UNCHANGED <<genVars, other>>

\* no filenames array in the body: every entry of ./uploads, or a 500 when
\* the directory cannot be read
StartProcessImagesAll ==
    /\ req.kind = "idle"
    /\ served = {}
    /\ served' = {"process"}
    /\ ops' = <<>>
    /\ \E readdirOk \in BOOLEAN :
          IF readdirOk
          THEN /\ \E listing \in Listings(DOMAIN uploads) :
                     req' = NewRequest("process", "server", listing)
               /\ response' = NoResponse
          ELSE /\ req' = Idle
               /\ response' = [status |-> 500, success |-> FALSE]
    /\ UNCHANGED <<uploads, originals, resized, metadataDir, noBackground>>
    /\ UNCHANGED <<genVars, other>>

ProcessImagesItem ==
    /\ req.kind = "process"
    /\ req.i < Len(req.files)
    /\ \E env \in ProcessEnvs :
          LET copyOk == env.copyOk
              sharpOk == env.sharpOk
              metaOk == env.metaOk
              k == req.i + 1
              filename == req.files[k]
              stage == ProcessStage(filename, req.hashes, copyOk, sharpOk)
              img == uploads[filename]
              hash == generateImageHash(img)
          IN  /\ req' = [req EXCEPT
                    !.i = k,
                    !.results = Append(@, ProcessResult(filename, stage, sharpOk)),
                    !.hashes = IF stage \in {"copyThrows", "processFailed", "ok"}
                               THEN @ \cup {hash} ELSE @,
                    !.duplicates = IF stage = "duplicate" THEN Append(@, filename) ELSE @]
              /\ ops' = ops \o ProcessOps(k, stage, metaOk)
              /\ originals' = IF stage \in {"processFailed", "ok"}
                              THEN (filename :> img) @@ originals ELSE originals
              /\ resized' = IF stage = "ok"
                            THEN (processedFilename(filename) :> Normalized(img)) @@ resized
                            ELSE resized
              /\ metadataDir' = IF stage = "ok" /\ metaOk
                                THEN (metadataFilename(filename) :> MetadataRecord(filename, img, hash))
                                     @@ metadataDir
                                ELSE metadataDir
    /\ UNCHANGED <<uploads, noBackground, response, served>>
    /\ UNCHANGED <<genVars, other>>

\* a variant that counts equal result entries once
CountDistinct(results, ok) == Cardinality({results[k] : k \in {j \in DOMAIN results : results[j].success = ok}})

\* results.filter((r) => r.success).length and its negation
Count(results, ok) == Cardinality({k \in DOMAIN results : results[k].success = ok})

ProcessImagesRespond ==
    /\ req.kind = "process"
    /\ req.i = Len(req.files)
    /\ response' = [status |-> 200, success |-> TRUE, endpoint |-> "process",
                    totalFiles |-> Len(req.files),
                    processed |-> Count(req.results, TRUE),
                    failed |-> Count(req.results, FALSE),
                    duplicates |-> Len(req.duplicates),
                    duplicateFiles |-> req.duplicates,
                    filenames |-> req.files,
                    results |-> req.results]
    /\ req' = Idle
    /\ UNCHANGED <<uploads, originals, resized, metadataDir, noBackground, ops, served>>
    /\ UNCHANGED <<genVars, other>>

\* ----------------------------------------------- POST /remove-background
\* the PNG with transparency the segmentation service answers with
Segmented(img) == [img EXCEPT !.format = "png"]

\* String.endsWith is case-sensitive
IsResizedImage(f) == f[Len(f)] \in {".jpg", ".jpeg", ".png"}

\* the point at which the handling of one item ends
RembgStage(filename, health, post, writeOk) ==
    IF filename \notin DOMAIN resized THEN "missing"
    ELSE IF health = "unreachable" THEN "probeThrows"
    ELSE IF health = "unhealthy" THEN "probeNotOk"
    ELSE IF post = "unreachable" THEN "postThrows"
    ELSE IF post = "error" THEN "postNotOk"
    ELSE IF ~writeOk THEN "writeThrows"
    ELSE "ok"

\* a variant in which a missing metadata record fails the item
RembgResultMergeEscalated(rev, filename, stage) ==
    IF stage = "ok" /\ metaFilename(filename) \in DOMAIN metadataDir
    THEN [filename |-> filename, success |-> TRUE,
          outputFilename |-> outputFilename(filename),
          outputPath |-> <<"no-background", outputFilename(filename)>>,
          processingTime |-> "elapsed"]
    ELSE [filename |-> filename, success |-> FALSE, error |-> stage]

\* server.js answers its own messages for a missing input and a failed probe;
\* index.js lets fs.access and the probe's fetch throw into the item's catch
RembgResult(rev, filename, stage) ==
    CASE stage = "missing" ->
            [filename |-> filename, success |-> FALSE,
             error |-> IF rev = "server" THEN "Input file not found" ELSE "ENOENT"]
      [] stage = "probeThrows" ->
            [filename |-> filename, success |-> FALSE,
             error |-> IF rev = "server" THEN "rembg service not available" ELSE "fetch failed"]
      [] stage = "probeNotOk" ->
            [filename |-> filename, success |-> FALSE, error |-> "rembg service not available"]
      [] stage = "postThrows" ->
            [filename |-> filename, success |-> FALSE, error |-> "fetch failed"]
      [] stage = "postNotOk" ->
            [filename |-> filename, success |-> FALSE, error |-> "rembg service error"]
      [] stage = "writeThrows" ->
            [filename |-> filename, success |-> FALSE, error |-> "writeFile failed"]
      [] stage = "ok" ->
            [filename |-> filename, success |-> TRUE,
             outputFilename |-> outputFilename(filename),
             outputPath |-> <<"no-background", outputFilename(filename)>>,
             processingTime |-> "elapsed"]

RembgOps(k, stage, health, post) ==
    LET op(name, arg) == [item |-> k, op |-> name, arg |-> arg]
    IN  CASE stage = "missing" -> <<op("access", "none")>>
          [] stage \in {"probeThrows", "probeNotOk"} ->
                <<op("access", "none"), op("health", health)>>
          [] stage \in {"postThrows", "postNotOk"} ->
                <<op("access", "none"), op("health", health), op("post", post)>>
          [] stage \in {"writeThrows", "ok"} ->
                <<op("access", "none"), op("health", health), op("post", post),
                  op("writeOutput", IF stage = "ok" THEN "written" ELSE "failed")>>

\* a variant that writes a fresh record with the three fields only
MergeBackgroundRemovalReplacing(record, filename) ==
    [noBackgroundFile |-> outputFilename(filename),
     backgroundRemovalTime |-> "elapsed",
     backgroundRemovedAt |-> "now"]

\* the best-effort merge: read, parse, set three fields, write back
MergeBackgroundRemoval(record, filename) ==
    [key \in DOMAIN record \cup {"noBackgroundFile", "backgroundRemovalTime", "backgroundRemovedAt"} |->
        CASE key = "noBackgroundFile" -> outputFilename(filename)
          [] key = "backgroundRemovalTime" -> "elapsed"
          [] key = "backgroundRemovedAt" -> "now"
          [] OTHER -> record[key]]

\* how the merge of an existing record can end: readFile throws, JSON.parse
\* throws, or the writeFile of the merged record throws
MergeOutcomes == {"merged", "unreadable", "unparsable", "write failed"}

\* outcomes of the external calls and file writes of one item; a call that is
\* not reached because an earlier one failed has no outcome to choose
RembgEnvs ==
    {env \in [health : {"ok", "unhealthy", "unreachable"}, post : {"ok", "error", "unreachable"},
              writeOk : BOOLEAN, merge : MergeOutcomes] :
        /\ env.health # "ok" => env.post = "ok" /\ env.writeOk /\ env.merge = "merged"
        /\ env.post # "ok" => env.writeOk /\ env.merge = "merged"
        /\ ~env.writeOk => env.merge = "merged"}

StartRemoveBackground ==
    /\ req.kind = "idle"
    /\ "rembg" \notin served
    /\ served' = served \cup {"rembg"}
    /\ \E rev \in {"server", "index"},
          filenames \in SeqsUpTo(RembgRequestNames, MaxBatch) :
          IF Len(filenames) = 0
          THEN /\ req' = Idle
               /\ response' = [status |-> 200, success |-> FALSE, endpoint |-> "rembg"]
          ELSE /\ req' = NewRequest("rembg", rev, filenames)
               /\ response' = NoResponse
    /\ ops' = <<>>
    /\ UNCHANGED <<uploads, originals, resized, metadataDir, noBackground>>
    /\ UNCHANGED <<genVars, other>>

\* no filenames array in the body: every .jpg/.jpeg/.png of ./processed/resized
StartRemoveBackgroundAll ==
    /\ req.kind = "idle"
    /\ "rembg" \notin served
    /\ served' = served \cup {"rembg"}
    /\ ops' = <<>>
    /\ \E rev \in {"server", "index"}, readdirOk \in BOOLEAN :
          IF ~readdirOk
          THEN /\ req' = Idle
               /\ response' = [status |-> 500, success |-> FALSE]
          ELSE IF {f \in DOMAIN resized : IsResizedImage(f)} = {}
          THEN /\ req' = Idle
               /\ response' = [status |-> 200, success |-> FALSE, endpoint |-> "rembg"]
          ELSE /\ \E listing \in Listings({f \in DOMAIN resized : IsResizedImage(f)}) :
                     req' = NewRequest("rembg", rev, listing)
               /\ response' = NoResponse
    /\ UNCHANGED <<uploads, originals, resized, metadataDir, noBackground>>
    /\ UNCHANGED <<genVars, other>>

RemoveBackgroundItem ==
    /\ req.kind = "rembg"
    /\ req.i < Len(req.files)
    /\ \E env \in RembgEnvs :
          LET health == env.health
              post == env.post
              writeOk == env.writeOk
              merge == env.merge
              k == req.i + 1
              filename == req.files[k]
              stage == RembgStage(filename, health, post, writeOk)
              metaPath == metaFilename(filename)
          IN  /\ req' = [req EXCEPT
                    !.i = k,
                    !.results = Append(@, RembgResult(req.rev, filename, stage))]
              /\ ops' = ops \o RembgOps(k, stage, health, post)
                            \o (IF stage = "ok"
                                THEN <<[item |-> k, op |-> "mergeMetadata",
                                        arg |-> IF metaPath \notin DOMAIN metadataDir THEN "no record"
                                                ELSE merge]>>
                                ELSE <<>>)
              /\ noBackground' = IF stage = "ok"
                                 THEN (outputFilename(filename) :> Segmented(resized[filename]))
                                      @@ noBackground
                                 ELSE noBackground
              /\ metadataDir' = IF stage = "ok" /\ metaPath \in DOMAIN metadataDir /\ merge = "merged"
                                THEN (metaPath :> MergeBackgroundRemoval(metadataDir[metaPath], filename))
                                     @@ metadataDir
                                ELSE metadataDir
    /\ UNCHANGED <<uploads, originals, resized, response, served>>
    /\ UNCHANGED <<genVars, other>>

RemoveBackgroundRespond ==
    /\ req.kind = "rembg"
    /\ req.i = Len(req.files)
    /\ response' = [status |-> 200, success |-> TRUE, endpoint |-> "rembg",
                    totalFiles |-> Len(req.files),
                    processed |-> Count(req.results, TRUE),
                    failed |-> Count(req.results, FALSE),
                    filenames |-> req.files,
                    results |-> req.results]
    /\ req' = Idle
    /\ UNCHANGED <<uploads, originals, resized, metadataDir, noBackground, ops, served>>
    /\ UNCHANGED <<genVars, other>>

\* ------------------------------- a second, concurrent POST /process-images
\* the names two batches are asked for: a.jpg and its byte-identical copy
SharedNames == { <<"a", ".jpg">>, <<"b", ".png">> }

\* a variant in which the set of seen hashes is shared between invocations
SeenHashesShared(batch, concurrent) ==
    batch.hashes \cup (IF concurrent.kind = "process" THEN concurrent.hashes ELSE {})

\* const hashes = new Set() is a local of the handler's invocation
SeenHashes(batch, concurrent) == batch.hashes

StartConcurrentBatch ==
    /\ other.kind = "idle"
    /\ \E filenames \in SeqsUpTo(SharedNames, MaxBatch) :
          other' = [kind |-> "process", files |-> filenames, i |-> 0, results |-> <<>>,
                    hashes |-> {}, duplicates |-> <<>>, response |-> NoResponse]
    /\ UNCHANGED <<fsVars, req, ops, response, served, genVars>>

\* one iteration of the second invocation's loop
ConcurrentBatchItem ==
    /\ other.kind = "process"
    /\ other.i < Len(other.files)
    /\ \E env \in ProcessEnvs :
          LET k == other.i + 1
              filename == other.files[k]
              stage == ProcessStage(filename, SeenHashes(other, req), env.copyOk, env.sharpOk)
              img == uploads[filename]
              hash == generateImageHash(img)
          IN  /\ other' = [other EXCEPT
                    !.i = k,
                    !.results = Append(@, ProcessResult(filename, stage, env.sharpOk)),
                    !.hashes = IF stage \in {"copyThrows", "processFailed", "ok"}
                               THEN @ \cup {hash} ELSE @,
                    !.duplicates = IF stage = "duplicate" THEN Append(@, filename) ELSE @]
              /\ originals' = IF stage \in {"processFailed", "ok"}
                              THEN (filename :> img) @@ originals ELSE originals
              /\ resized' = IF stage = "ok"
                            THEN (processedFilename(filename) :> Normalized(img)) @@ resized
                            ELSE resized
              /\ metadataDir' = IF stage = "ok" /\ env.metaOk
                                THEN (metadataFilename(filename) :> MetadataRecord(filename, img, hash))
                                     @@ metadataDir
                                ELSE metadataDir
    /\ UNCHANGED <<uploads, noBackground, req, ops, response, served, genVars>>

ConcurrentBatchRespond ==
    /\ other.kind = "process"
    /\ other.i = Len(other.files)
    /\ other.response = NoResponse
    /\ other' = [other EXCEPT !.response =
                    [status |-> 200, success |-> TRUE, endpoint |-> "process",
                     totalFiles |-> Len(other.files),
                     processed |-> Count(other.results, TRUE),
                     failed |-> Count(other.results, FALSE),
                     duplicates |-> Len(other.duplicates),
                     duplicateFiles |-> other.duplicates,
                     filenames |-> other.files,
                     results |-> other.results]]
    /\ UNCHANGED <<fsVars, req, ops, response, served, genVars>>

\* ------------- two requests on the staging directories, one call at a time
\* what a reader finds in an image file whose write has begun and not ended
Truncated(img) == [img EXCEPT !.decode = FALSE]

\* what a reader finds in a JSON file whose write has begun and not ended
TruncatedRecord == [truncated |-> TRUE]

\* a variant that fills a temporary file and renames it when the write ends
OpenForWriteTemp(dir, name, partial) == dir

\* fs.copyFile, sharp's toFile and fs.writeFile open the target path itself
OpenForWrite(dir, name, partial) == (name :> partial) @@ dir

\* the name /process-images is asked for and the name /remove-background is
\* asked for at the same time: the same name, or the normalized file's name
RacingNames ==
    { [process |-> <<"t", ".tiff">>, rembg |-> <<"t", ".tiff">>],
      [process |-> <<"a", ".jpg">>, rembg |-> <<"a", "_processed", ".jpg">>] }

NoInput == [id |-> "none", meta |-> FALSE, decode |-> TRUE, width |-> 0, height |-> 0,
            format |-> "none", thumb |-> 0]

\* both requests arrive; neither waits for the other
RaceStart ==
    /\ req.kind = "idle"
    /\ other.kind = "idle"
    /\ served = {}
    /\ served' = {"process", "rembg"}
    /\ \E names \in RacingNames :
          /\ req' = [kind |-> "process", rev |-> "server", files |-> <<names.process>>, i |-> 0,
                     results |-> <<>>, hashes |-> {}, duplicates |-> <<>>, pc |-> "gate"]
          /\ other' = [kind |-> "rembg", filename |-> names.rembg, pc |-> "access",
                       input |-> NoInput, merge |-> "none", record |-> TruncatedRecord,
                       results |-> <<>>]
    /\ ops' = <<>>
    /\ response' = NoResponse
    /\ UNCHANGED <<fsVars, genVars>>

\* fs.access, isImageCorrupted, generateImageHash and the duplicate gate
WriterGate ==
    /\ req.kind = "process" /\ req.pc = "gate"
    /\ ProcessStage(req.files[1], req.hashes, TRUE, TRUE) = "ok"
    /\ req' = [req EXCEPT !.hashes = @ \cup {generateImageHash(uploads[req.files[1]])},
                          !.pc = "copyFile"]
    /\ UNCHANGED <<fsVars, ops, response, served, genVars, other>>

WriterCopyBegin ==
    /\ req.kind = "process" /\ req.pc = "copyFile"
    /\ originals' = OpenForWrite(originals, req.files[1], Truncated(uploads[req.files[1]]))
    /\ req' = [req EXCEPT !.pc = "copying"]
    /\ UNCHANGED <<uploads, resized, metadataDir, noBackground, ops, response, served, genVars, other>>

WriterCopyEnd ==
    /\ req.kind = "process" /\ req.pc = "copying"
    /\ originals' = (req.files[1] :> uploads[req.files[1]]) @@ originals
    /\ req' = [req EXCEPT !.pc = "toFile"]
    /\ UNCHANGED <<uploads, resized, metadataDir, noBackground, ops, response, served, genVars, other>>

WriterToFileBegin ==
    /\ req.kind = "process" /\ req.pc = "toFile"
    /\ resized' = OpenForWrite(resized, processedFilename(req.files[1]),
                               Truncated(Normalized(uploads[req.files[1]])))
    /\ req' = [req EXCEPT !.pc = "encoding"]
    /\ UNCHANGED <<uploads, originals, metadataDir, noBackground, ops, response, served, genVars, other>>

WriterToFileEnd ==
    /\ req.kind = "process" /\ req.pc = "encoding"
    /\ resized' = (processedFilename(req.files[1]) :> Normalized(uploads[req.files[1]])) @@ resized
    /\ req' = [req EXCEPT !.pc = "saveMetadata"]
    /\ UNCHANGED <<uploads, originals, metadataDir, noBackground, ops, response, served, genVars, other>>

WriterSaveBegin ==
    /\ req.kind = "process" /\ req.pc = "saveMetadata"
    /\ metadataDir' = OpenForWrite(metadataDir, metadataFilename(req.files[1]), TruncatedRecord)
    /\ req' = [req EXCEPT !.pc = "saving"]
    /\ UNCHANGED <<uploads, originals, resized, noBackground, ops, response, served, genVars, other>>

\* two writes of one path that overlap leave either content or a mix of both
WriterSaveEnd ==
    /\ req.kind = "process" /\ req.pc = "saving"
    /\ LET filename == req.files[1]
           img == uploads[filename]
           overlap == /\ other.kind = "rembg" /\ other.pc = "merging"
                      /\ metaFilename(other.filename) = metadataFilename(filename)
       IN  /\ \E content \in {MetadataRecord(filename, img, generateImageHash(img))}
                               \cup (IF overlap THEN {TruncatedRecord} ELSE {}) :
                 metadataDir' = (metadataFilename(filename) :> content) @@ metadataDir
           /\ req' = [req EXCEPT !.i = 1,
                                 !.results = Append(@, ProcessResult(filename, "ok", TRUE)),
                                 !.pc = "respond"]
    /\ UNCHANGED <<uploads, originals, resized, noBackground, ops, response, served, genVars, other>>

WriterRespond ==
    /\ req.kind = "process" /\ req.pc = "respond"
    /\ response' = [status |-> 200, success |-> TRUE, endpoint |-> "process",
                    totalFiles |-> Len(req.files),
                    processed |-> Count(req.results, TRUE),
                    failed |-> Count(req.results, FALSE),
                    duplicates |-> Len(req.duplicates),
                    duplicateFiles |-> req.duplicates,
                    filenames |-> req.files,
                    results |-> req.results]
    /\ req' = [req EXCEPT !.pc = "done"]
    /\ UNCHANGED <<fsVars, ops, served, genVars, other>>

WriterNext ==
    \/ WriterGate
    \/ WriterCopyBegin
    \/ WriterCopyEnd
    \/ WriterToFileBegin
    \/ WriterToFileEnd
    \/ WriterSaveBegin
    \/ WriterSaveEnd
    \/ WriterRespond

\* fs.access(inputPath), then the health probe, which answers 2xx here
ReaderAccess ==
    /\ other.kind = "rembg" /\ other.pc = "access"
    /\ other' = IF other.filename \in DOMAIN resized
                THEN [other EXCEPT !.pc = "readFile"]
                ELSE [other EXCEPT !.pc = "done",
                         !.results = Append(@, RembgResult("server", other.filename, "missing"))]
    /\ UNCHANGED <<fsVars, req, ops, response, served, genVars>>

\* fs.readFile(inputPath) returns the bytes the file holds at this moment
ReaderReadFile ==
    /\ other.kind = "rembg" /\ other.pc = "readFile"
    /\ other.filename \in DOMAIN resized
    /\ other' = [other EXCEPT !.input = resized[other.filename], !.pc = "post"]
    /\ UNCHANGED <<fsVars, req, ops, response, served, genVars>>

\* the segmentation service answers 2xx, or not 2xx for bytes it cannot decode
ReaderPost ==
    /\ other.kind = "rembg" /\ other.pc = "post"
    /\ \E post \in {"ok"} \cup (IF other.input.decode THEN {} ELSE {"error"}) :
          other' = IF post = "ok"
                   THEN [other EXCEPT !.pc = "writeOutput"]
                   ELSE [other EXCEPT !.pc = "done",
                            !.results = Append(@, RembgResult("server", other.filename, "postNotOk"))]
    /\ UNCHANGED <<fsVars, req, ops, response, served, genVars>>

ReaderWriteOutput ==
    /\ other.kind = "rembg" /\ other.pc = "writeOutput"
    /\ noBackground' = (outputFilename(other.filename) :> Segmented(other.input)) @@ noBackground
    /\ other' = [other EXCEPT !.pc = "mergeRead"]
    /\ UNCHANGED <<uploads, originals, resized, metadataDir, req, ops, response, served, genVars>>

\* fs.readFile(metaPath) and JSON.parse; either may throw into the merge's catch
ReaderMergeRead ==
    /\ other.kind = "rembg" /\ other.pc = "mergeRead"
    /\ LET metaPath == metaFilename(other.filename)
           outcome == IF metaPath \notin DOMAIN metadataDir THEN "no record"
                      ELSE IF metadataDir[metaPath] = TruncatedRecord THEN "unparsable"
                      ELSE "read"
       IN  other' = IF outcome = "read"
                    THEN [other EXCEPT !.pc = "mergeWrite", !.merge = outcome,
                             !.record = MergeBackgroundRemoval(metadataDir[metaPath], other.filename)]
                    ELSE [other EXCEPT !.pc = "done", !.merge = outcome,
                             !.results = Append(@, RembgResult("server", other.filename, "ok"))]
    /\ UNCHANGED <<fsVars, req, ops, response, served, genVars>>

ReaderMergeWriteBegin ==
    /\ other.kind = "rembg" /\ other.pc = "mergeWrite"
    /\ metadataDir' = OpenForWrite(metadataDir, metaFilename(other.filename), TruncatedRecord)
    /\ other' = [other EXCEPT !.pc = "merging"]
    /\ UNCHANGED <<uploads, originals, resized, noBackground, req, ops, response, served, genVars>>

ReaderMergeWriteEnd ==
    /\ other.kind = "rembg" /\ other.pc = "merging"
    /\ LET overlap == /\ req.kind = "process" /\ req.pc = "saving"
                      /\ metaFilename(other.filename) = metadataFilename(req.files[1])
       IN  \E content \in {other.record} \cup (IF overlap THEN {TruncatedRecord} ELSE {}) :
                 metadataDir' = (metaFilename(other.filename) :> content) @@ metadataDir
    /\ other' = [other EXCEPT !.pc = "done", !.merge = "merged",
                     !.results = Append(@, RembgResult("server", other.filename, "ok"))]
    /\ UNCHANGED <<uploads, originals, resized, noBackground, req, ops, response, served, genVars>>

ReaderNext ==
    \/ ReaderAccess
    \/ ReaderReadFile
    \/ ReaderPost
    \/ ReaderWriteOutput
    \/ ReaderMergeRead
    \/ ReaderMergeWriteBegin
    \/ ReaderMergeWriteEnd

\* ------------------------------------------------------------ the router
\* the routes server.js registers on the app
Routes ==
    { <<"GET", "/check-n8n">>, <<"POST", "/upload-images">>, <<"GET", "/uploads">>,
      <<"POST", "/process-images">>, <<"POST", "/validate-image">>, <<"POST", "/remove-background">>,
      <<"GET", "/no-background-images">>, <<"GET", "/check-comfy">>, <<"GET", "/comfy-models">>,
      <<"POST", "/generate-image">>, <<"POST", "/generate-variations">>,
      <<"GET", "/generated-images">>, <<"GET", "/fashion-prompts">> }

\* a request no route matches falls through to Express's final handler
Dispatch(method, path) == IF <<method, path>> \in Routes THEN path ELSE "finalhandler"

\* GET /processed-images, the listing the test script fetches after a batch
GetProcessedImages ==
    /\ req.kind = "idle"
    /\ "process" \in served
    /\ "list" \notin served
    /\ served' = served \cup {"list"}
    /\ Dispatch("GET", "/processed-images") = "finalhandler"
    /\ response' = [status |-> 404, success |-> FALSE, endpoint |-> "finalhandler"]
    /\ UNCHANGED <<fsVars, req, ops, genVars, other>>

\* --------------------------------------------------- POST /validate-image
\* the name multer's diskStorage gives the submitted file in ./uploads:
\* fieldname, a unique suffix and the original extension
ValidateName == <<"image-1", ".jpg">>

\* files submitted for validation: a sound image and an unreadable one
ValidateImages == {ImgTiff, ImgBad}

Remove(dir, filename) == [f \in DOMAIN dir \ {filename} |-> dir[f]]

\* upload.single("image"): the file is stored in ./uploads before the handler
\* runs; without a file the handler answers 400
ValidateUpload ==
    /\ other.kind = "idle"
    /\ \E hasFile \in BOOLEAN :
          IF hasFile
          THEN \E img \in ValidateImages :
                  /\ uploads' = (ValidateName :> img) @@ uploads
                  /\ other' = [kind |-> "validate", pc |-> "stored", file |-> ValidateName,
                                response |-> NoResponse]
          ELSE /\ uploads' = uploads
               /\ other' = [kind |-> "validate", pc |-> "done", file |-> <<>>,
                             response |-> [status |-> 400, success |-> FALSE]]
    /\ UNCHANGED <<originals, resized, metadataDir, noBackground, req, ops, response, served, genVars>>

\* isImageCorrupted, then getImageInfo, which rethrows a failed metadata or
\* stat call into the handler's catch
ValidateInspect ==
    /\ other.kind = "validate"
    /\ other.pc = "stored"
    /\ \E infoOk \in BOOLEAN :
          IF other.file \notin DOMAIN uploads \/ isImageCorrupted(uploads[other.file])
          THEN other' = [other EXCEPT !.pc = "unlinkCorrupted"]
          ELSE IF infoOk
          THEN other' = [other EXCEPT !.pc = "unlinkValid"]
          ELSE other' = [other EXCEPT !.pc = "done",
                                      !.response = [status |-> 500, success |-> FALSE]]
    /\ UNCHANGED <<fsVars, req, ops, response, served, genVars>>

\* await fs.unlink(req.file.path) and the response; a failed unlink goes to
\* the handler's catch
ValidateUnlink ==
    /\ other.kind = "validate"
    /\ other.pc \in {"unlinkCorrupted", "unlinkValid"}
    /\ \E unlinkOk \in BOOLEAN :
          IF unlinkOk /\ other.file \in DOMAIN uploads
          THEN /\ uploads' = Remove(uploads, other.file)
               /\ other' = [other EXCEPT !.pc = "done",
                               !.response = [status |-> 200, success |-> other.pc = "unlinkValid",
                                             valid |-> other.pc = "unlinkValid"]]
          ELSE /\ uploads' = uploads
               /\ other' = [other EXCEPT !.pc = "done",
                                          !.response = [status |-> 500, success |-> FALSE]]
    /\ UNCHANGED <<originals, resized, metadataDir, noBackground, req, ops, response, served, genVars>>

\* ----------------------------------------------------------- comfyProcessor
pollInterval == 2000
DefaultMaxWaitTime == 120000

GenIdle == [kind |-> "idle", pc |-> "idle", count |-> 0, seed |-> 0, i |-> 0,
            results |-> <<>>, currentSeed |-> 0, filename |-> <<>>, sourcePath |-> <<>>,
            prompt |-> "undefined", style |-> "undefined", finalPrompt |-> "undefined"]

NoWait == [promptId |-> 0, maxWaitTime |-> 0, elapsed |-> 0, polls |-> 0,
           outcome |-> "none", status |-> [status |-> "none"]]

NoJob == [state |-> "none"]
NoTiming == [latencies |-> {}, overshoots |-> {}, fetches |-> {}]

\* GET /history/<id>: what the engine can hold for a finished prompt.  An
\* entry carries a status object (status_str, completed) and may carry outputs:
\* "images" has the save node's image list, "empty" is the object {}.
HistoryEntries ==
    { [status |-> "object", status_str |-> "success", completed |-> TRUE,  outputs |-> "images"],
      [status |-> "object", status_str |-> "success", completed |-> TRUE,  outputs |-> "empty"],
      [status |-> "object", status_str |-> "success", completed |-> TRUE,  outputs |-> "absent"],
      [status |-> "object", status_str |-> "error",   completed |-> FALSE, outputs |-> "absent"],
      [status |-> "object", status_str |-> "error",   completed |-> FALSE, outputs |-> "empty"] }

\* how the fetch of GET /history/<id> can end
Fetches == {"ok", "http_error", "network_error"}

\* a variant that reports a failed fetch as the job's own error status
getPromptStatusFetchErrorAsJobError(fetched) ==
    CASE fetched \in {"http_error", "network_error"} ->
            [status |-> "object", status_str |-> "error", completed |-> FALSE, outputs |-> "absent"]
      [] fetched = "ok" /\ job.state # "done" ->
            [status |-> "not_found", status_str |-> "none", completed |-> FALSE, outputs |-> "absent"]
      [] fetched = "ok" /\ job.state = "done" -> job.entry

\* getPromptStatus(promptId): a non-2xx answer, an id missing from the history
\* and a failed fetch each give an object whose status field is a string
getPromptStatus(fetched) ==
    CASE fetched = "http_error" -> [status |-> "unknown", status_str |-> "none", completed |-> FALSE, outputs |-> "absent"]
      [] fetched = "network_error" -> [status |-> "error", status_str |-> "none", completed |-> FALSE, outputs |-> "absent"]
      [] fetched = "ok" /\ job.state # "done" ->
            [status |-> "not_found", status_str |-> "none", completed |-> FALSE, outputs |-> "absent"]
      [] fetched = "ok" /\ job.state = "done" -> job.entry

\* one evaluation of the loop body's two tests on a polled status
PollVerdict(status) ==
    IF status.completed \/ status.outputs # "absent" THEN "success"
    ELSE IF status.status_str = "error" THEN "failure"
    ELSE "pending"

NewWait(promptId, maxWaitTime) ==
    [promptId |-> promptId, maxWaitTime |-> maxWaitTime, elapsed |-> 0, polls |-> 0,
     outcome |-> "none", status |-> [status |-> "none"]]

\* the engine finishes the queued prompt and files it in its history; at is
\* the time since waitForCompletion was called
EngineFinish ==
    /\ job.state = "queued"
    /\ \E entry \in HistoryEntries : job' = [state |-> "done", entry |-> entry, at |-> wait.elapsed]
    /\ UNCHANGED <<fsVars, other, req, ops, response, served, gen, wait, calls, timing>>

\* while (Date.now() - startTime < maxWaitTime): poll, test, or leave the loop
WaitPoll ==
    /\ gen.pc = "wait"
    /\ wait.outcome = "none"
    /\ IF wait.elapsed < wait.maxWaitTime
       THEN \E fetched \in timing.fetches, latency \in timing.latencies :
               LET status == getPromptStatus(fetched)
                   verdict == PollVerdict(status)
               IN  /\ wait' = [wait EXCEPT
                          !.polls = @ + 1,
                          !.elapsed = @ + latency,
                          !.status = IF verdict = "pending" THEN @ ELSE status,
                          !.outcome = IF verdict = "pending" THEN "none" ELSE verdict]
                   /\ gen' = [gen EXCEPT !.pc = IF verdict = "pending" THEN "sleep" ELSE "waited"]
       ELSE /\ wait' = [wait EXCEPT !.outcome = "timeout"]
            /\ gen' = [gen EXCEPT !.pc = "waited"]
    /\ UNCHANGED <<fsVars, other, req, ops, response, served, job, calls, timing>>

\* a variant whose timer fires after half the interval
WaitSleepHalf ==
    /\ gen.pc = "sleep"
    /\ wait' = [wait EXCEPT !.elapsed = @ + (pollInterval \div 2)]
    /\ gen' = [gen EXCEPT !.pc = "wait"]
    /\ UNCHANGED <<fsVars, other, req, ops, response, served, job, calls, timing>>

\* await new Promise((resolve) => setTimeout(resolve, pollInterval))
WaitSleep ==
    /\ gen.pc = "sleep"
    /\ \E overshoot \in timing.overshoots :
          wait' = [wait EXCEPT !.elapsed = @ + pollInterval + overshoot]
    /\ gen' = [gen EXCEPT !.pc = "wait"]
    /\ UNCHANGED <<fsVars, other, req, ops, response, served, job, calls, timing>>

\* ------------------------------- POST /generate-image, /generate-variations
\* seeds a caller pins, -1 standing for "not pinned"
RequestSeeds == {-1, 42}

\* values of Math.floor(Math.random() * 1000000)
RandomSeeds == {0, 999999}

\* names /generate-variations is asked for; <<>> stands for a missing field
VariationNames == { <<"a", ".jpg">>, <<"a", "_processed", ".jpg">>, <<"t", ".tiff">>, MissingFile, <<>> }

\* a prompt text given by a caller
CallerText == "red dress on a beach"

\* getFashionPrompts("clothing"): the clothing row of the prompt table
getFashionPrompts ==
    [studio |-> "professional product photography, clean white background, studio lighting, high quality",
     lifestyle |-> "lifestyle product photo, natural lighting, casual setting, aesthetic composition",
     elegant |-> "elegant fashion photography, luxury presentation, sophisticated lighting, premium quality"]

\* names every object literal inherits from Object.prototype
PrototypeKeys == {"constructor", "toString", "hasOwnProperty", "__proto__"}

\* table[key]: an own property, else an inherited one (a function or the
\* prototype object, not a string), else undefined
GetProperty(table, key) ==
    IF key \in DOMAIN table THEN table[key]
    ELSE IF key \in PrototypeKeys THEN "[inherited " \o key \o "]"
    ELSE "undefined"

Falsy(v) == v \in {"undefined", ""}

\* let finalPrompt = prompt; if (!finalPrompt) finalPrompt =
\* fashionPrompts[style] || fashionPrompts.studio; style defaults to "studio"
finalPrompt(prompt, style) ==
    IF ~Falsy(prompt) THEN prompt
    ELSE LET key == IF style = "undefined" THEN "studio" ELSE style
             found == GetProperty(getFashionPrompts, key)
         IN  IF ~Falsy(found) THEN found ELSE getFashionPrompts["studio"]

\* the prompt and style fields of the bodies /generate-variations is sent
VariationBodies ==
    {[prompt |-> "undefined", style |-> st] :
        st \in {"undefined", "studio", "lifestyle", "elegant", "vintage", "constructor"}}
      \cup {[prompt |-> CallerText, style |-> "elegant"]}

\* a variant that takes any answer, 2xx or not, for a healthy engine
checkComfyHealthAnyAnswer(fetched) == fetched # "unreachable"

checkComfyHealth(fetched) == fetched = "ok"

\* a variant that looks into the directories in the reverse order
FindSourceUploadsFirst(filename) ==
    IF filename \in DOMAIN uploads THEN <<"uploads", filename>>
    ELSE IF filename \in DOMAIN originals THEN <<"originals", filename>>
    ELSE IF filename \in DOMAIN resized THEN <<"resized", filename>>
    ELSE IF filename \in DOMAIN noBackground THEN <<"no-background", filename>>
    ELSE <<>>

\* the first of the four staging directories that holds the file
FindSource(filename) ==
    IF filename \in DOMAIN noBackground THEN <<"no-background", filename>>
    ELSE IF filename \in DOMAIN resized THEN <<"resized", filename>>
    ELSE IF filename \in DOMAIN originals THEN <<"originals", filename>>
    ELSE IF filename \in DOMAIN uploads THEN <<"uploads", filename>>
    ELSE <<>>

ServerError == [status |-> 500, success |-> FALSE]

StartGenerateImage ==
    /\ gen.kind = "idle"
    /\ served = {}
    /\ served' = {"generate"}
    /\ calls' = <<>>
    /\ \E hasPrompt \in BOOLEAN, seed \in RequestSeeds, count \in 0..MaxCount :
          IF ~hasPrompt
          THEN /\ response' = [status |-> 400, success |-> FALSE]
               /\ gen' = GenIdle
          ELSE /\ response' = NoResponse
               /\ gen' = [GenIdle EXCEPT !.kind = "image", !.pc = "health",
                                         !.count = count, !.seed = seed,
                                         !.prompt = CallerText, !.finalPrompt = CallerText]
    /\ UNCHANGED <<fsVars, other, req, ops, wait, job, timing>>

StartGenerateVariations ==
    /\ gen.kind = "idle"
    /\ served = {}
    /\ served' = {"generate"}
    /\ calls' = <<>>
    /\ \E filename \in VariationNames, count \in 0..MaxCount, body \in VariationBodies :
          IF filename = <<>>
          THEN /\ response' = [status |-> 400, success |-> FALSE]
               /\ gen' = GenIdle
          ELSE /\ response' = NoResponse
               /\ gen' = [GenIdle EXCEPT !.kind = "variations", !.pc = "health",
                                         !.count = count, !.seed = -1, !.filename = filename,
                                         !.prompt = body.prompt, !.style = body.style]
    /\ UNCHANGED <<fsVars, other, req, ops, wait, job, timing>>

GenHealthCheck ==
    /\ gen.pc = "health"
    /\ \E fetched \in {"ok", "unhealthy", "unreachable"} :
          /\ calls' = Append(calls, [call |-> "system_stats", outcome |-> fetched])
          /\ IF checkComfyHealth(fetched)
             THEN /\ gen' = [gen EXCEPT !.pc = IF gen.kind = "image" THEN "loop" ELSE "source"]
                  /\ response' = response
             ELSE /\ gen' = GenIdle
                  /\ response' = [status |-> 503, success |-> FALSE]
    /\ UNCHANGED <<fsVars, other, req, ops, served, wait, job, timing>>

GenFindSource ==
    /\ gen.pc = "source"
    /\ IF FindSource(gen.filename) = <<>>
       THEN /\ gen' = GenIdle
            /\ response' = [status |-> 404, success |-> FALSE]
       ELSE /\ gen' = [gen EXCEPT !.pc = "upload", !.sourcePath = FindSource(gen.filename)]
            /\ response' = response
    /\ UNCHANGED <<fsVars, other, req, ops, served, wait, job, calls, timing>>

\* uploadImageToComfy throws on a non-2xx answer and on a failed fetch; after
\* the upload the prompt to submit is settled
GenUpload ==
    /\ gen.pc = "upload"
    /\ \E fetched \in {"ok", "error", "unreachable"} :
          /\ calls' = Append(calls, [call |-> "upload", outcome |-> fetched, source |-> gen.sourcePath])
          /\ IF fetched = "ok"
             THEN /\ gen' = [gen EXCEPT !.pc = "loop",
                                         !.finalPrompt = finalPrompt(gen.prompt, gen.style)]
                  /\ response' = response
             ELSE /\ gen' = GenIdle
                  /\ response' = ServerError
    /\ UNCHANGED <<fsVars, other, req, ops, served, wait, job, timing>>

\* a variant that submits the pinned seed for every image of the batch
currentSeedNoOffset(kind, seed, i, random) ==
    IF kind = "image" /\ seed # -1 THEN seed ELSE random

\* /generate-image: seed === -1 ? Math.floor(Math.random() * 1000000) : seed + i;
\* /generate-variations draws every seed at random
currentSeed(kind, seed, i, random) ==
    IF kind = "image" /\ seed # -1 THEN seed + i ELSE random

\* loop head: the seed, the workflow and queuePrompt, which throws on a
\* non-2xx answer and on a failed fetch
GenQueuePrompt ==
    /\ gen.pc = "loop"
    /\ gen.i < gen.count
    /\ \E fetched \in {"ok", "error", "unreachable"}, random \in RandomSeeds :
          LET seed == currentSeed(gen.kind, gen.seed, gen.i, random)
          IN  /\ calls' = Append(calls, [call |-> "prompt", outcome |-> fetched, seed |-> seed,
                                          text |-> gen.finalPrompt])
              /\ IF fetched = "ok"
                 THEN /\ gen' = [gen EXCEPT !.pc = "wait", !.currentSeed = seed]
                      /\ wait' = NewWait(gen.i + 1, DefaultMaxWaitTime)
                      /\ job' = [state |-> "queued"]
                      /\ response' = response
                 ELSE /\ gen' = GenIdle
                      /\ wait' = wait
                      /\ job' = job
                      /\ response' = ServerError
    /\ UNCHANGED <<fsVars, other, req, ops, served, timing>>

\* after waitForCompletion has returned: the failure entry, the lookup of
\* completion.status.outputs["9"], the download and the success entry
GenOutput ==
    /\ gen.pc = "waited"
    /\ gen.kind \in {"image", "variations"}
    /\ wait' = NoWait
    /\ job' = NoJob
    /\ IF wait.outcome # "success"
       THEN /\ gen' = [gen EXCEPT !.pc = "loop", !.i = @ + 1,
                          !.results = Append(@, [index |-> gen.i + 1, success |-> FALSE,
                                                 error |-> IF wait.outcome = "failure"
                                                           THEN "Generation failed"
                                                           ELSE "Timeout waiting for generation"])]
            /\ UNCHANGED <<calls, response>>
       ELSE IF wait.status.outputs = "absent"
       THEN /\ gen' = GenIdle
            /\ response' = ServerError
            /\ calls' = calls
       ELSE IF wait.status.outputs = "empty"
       THEN /\ gen' = [gen EXCEPT !.pc = "loop", !.i = @ + 1,
                          !.results = Append(@, [index |-> gen.i + 1, success |-> FALSE,
                                                 error |-> "No output image generated"])]
            /\ UNCHANGED <<calls, response>>
       ELSE \E fetched \in {"ok", "error"} :
               /\ calls' = Append(calls, [call |-> "view", outcome |-> fetched])
               /\ IF fetched = "ok"
                  THEN /\ gen' = [gen EXCEPT !.pc = "loop", !.i = @ + 1,
                                     !.results = Append(@, [index |-> gen.i + 1, success |-> TRUE,
                                                            seed |-> gen.currentSeed])]
                       /\ response' = response
                  ELSE /\ gen' = GenIdle
                       /\ response' = ServerError
    /\ UNCHANGED <<fsVars, other, req, ops, served, timing>>

GenRespond ==
    /\ gen.pc = "loop"
    /\ gen.i >= gen.count
    /\ response' = [status |-> 200, success |-> TRUE, endpoint |-> gen.kind,
                    totalRequested |-> gen.count,
                    generated |-> Count(gen.results, TRUE),
                    failed |-> Count(gen.results, FALSE),
                    results |-> gen.results]
    /\ gen' = GenIdle
    /\ UNCHANGED <<fsVars, other, req, ops, served, wait, job, calls, timing>>

\* a direct call waitForCompletion(promptId, maxWaitTime) for a queued prompt
WaitBudgets == {0, 1, 2000, 3000, 4001}

StartWait ==
    /\ gen.kind = "idle"
    /\ served = {}
    /\ served' = {"wait"}
    /\ \E maxWaitTime \in WaitBudgets :
          wait' = NewWait(1, maxWaitTime)
    /\ gen' = [GenIdle EXCEPT !.kind = "wait", !.pc = "wait"]
    /\ job' = [state |-> "queued"]
    /\ UNCHANGED <<fsVars, other, req, ops, response, calls, timing>>

\* ------------------------------------------------------------ specification
Init ==
    /\ uploads = UploadedFiles
    /\ originals = <<>>
    /\ resized = <<>>
    /\ metadataDir = <<>>
    /\ noBackground = <<>>
    /\ req = Idle
    /\ ops = <<>>
    /\ response = NoResponse
    /\ served = {}
    /\ gen = GenIdle
    /\ wait = NoWait
    /\ job = NoJob
    /\ calls = <<>>
    /\ timing = NoTiming
    /\ other = NoOther

Next ==
    \/ StartProcessImages
    \/ StartProcessImagesAll
    \/ ProcessImagesItem
    \/ ProcessImagesRespond
    \/ StartRemoveBackground
    \/ StartRemoveBackgroundAll
    \/ RemoveBackgroundItem
    \/ RemoveBackgroundRespond

Spec == Init /\ [][Next]_vars

\* the generation endpoints, over staging directories as /process-images
\* leaves them after normalizing a.jpg and t.tiff and /remove-background
\* after segmenting t.tiff (which keeps its name in every directory)
GenTiming == [latencies |-> {60000}, overshoots |-> {0}, fetches |-> Fetches]

InitGen ==
    /\ uploads = UploadedFiles
    /\ originals = (<<"a", ".jpg">> :> ImgA) @@ (<<"t", ".tiff">> :> ImgTiff)
    /\ resized = (<<"a", "_processed", ".jpg">> :> Normalized(ImgA)) @@ (<<"t", ".tiff">> :> Normalized(ImgTiff))
    /\ metadataDir = <<>>
    /\ noBackground = (<<"t", ".tiff">> :> Segmented(Normalized(ImgTiff)))
    /\ req = Idle
    /\ ops = <<>>
    /\ response = NoResponse
    /\ served = {}
    /\ gen = GenIdle
    /\ wait = NoWait
    /\ job = NoJob
    /\ calls = <<>>
    /\ timing = GenTiming
    /\ other = NoOther

NextGen ==
    \/ StartGenerateImage
    \/ StartGenerateVariations
    \/ GenHealthCheck
    \/ GenFindSource
    \/ GenUpload
    \/ GenQueuePrompt
    \/ EngineFinish
    \/ WaitPoll
    \/ WaitSleep
    \/ GenOutput
    \/ GenRespond

SpecGen == InitGen /\ [][NextGen]_vars

\* direct calls of waitForCompletion with small budgets and fine-grained delays
WaitTiming == [latencies |-> {0, 1, 1500}, overshoots |-> {0, 1}, fetches |-> Fetches]

InitWait ==
    /\ uploads = UploadedFiles
    /\ originals = <<>>
    /\ resized = <<>>
    /\ metadataDir = <<>>
    /\ noBackground = <<>>
    /\ req = Idle
    /\ ops = <<>>
    /\ response = NoResponse
    /\ served = {}
    /\ gen = GenIdle
    /\ wait = NoWait
    /\ job = NoJob
    /\ calls = <<>>
    /\ timing = WaitTiming
    /\ other = NoOther

NextWait ==
    \/ StartWait
    \/ EngineFinish
    \/ WaitPoll
    \/ WaitSleep

SpecWait == InitWait /\ [][NextWait]_vars

\* the event loop resumes a pending poll or timer
FairWait == InitWait /\ [][NextWait]_vars /\ WF_vars(WaitPoll) /\ WF_vars(WaitSleep)

\* direct calls of waitForCompletion against an engine that answers every
\* poll at once
PromptTiming == [latencies |-> {0}, overshoots |-> {0, 1}, fetches |-> {"ok"}]

InitPrompt ==
    /\ uploads = UploadedFiles
    /\ originals = <<>>
    /\ resized = <<>>
    /\ metadataDir = <<>>
    /\ noBackground = <<>>
    /\ req = Idle
    /\ ops = <<>>
    /\ response = NoResponse
    /\ served = {}
    /\ gen = GenIdle
    /\ wait = NoWait
    /\ job = NoJob
    /\ calls = <<>>
    /\ timing = PromptTiming
    /\ other = NoOther

SpecPrompt == InitPrompt /\ [][NextWait]_vars

\* direct calls of waitForCompletion against an engine that may be out of
\* reach for the whole call
OutageTiming == [latencies |-> {0, 1, 1500}, overshoots |-> {0, 1},
                 fetches |-> {"http_error", "network_error"}]

InitOutage ==
    /\ uploads = UploadedFiles
    /\ originals = <<>>
    /\ resized = <<>>
    /\ metadataDir = <<>>
    /\ noBackground = <<>>
    /\ req = Idle
    /\ ops = <<>>
    /\ response = NoResponse
    /\ served = {}
    /\ gen = GenIdle
    /\ wait = NoWait
    /\ job = NoJob
    /\ calls = <<>>
    /\ timing \in {WaitTiming, OutageTiming}
    /\ other = NoOther

FairOutage == InitOutage /\ [][NextWait]_vars /\ WF_vars(WaitPoll) /\ WF_vars(WaitSleep)

\* two invocations of /process-images over the same uploads: the first has
\* been accepted, the second arrives at any moment before, between or after
\* the first one's items
InitBatches ==
    /\ uploads = UploadedFiles
    /\ originals = <<>>
    /\ resized = <<>>
    /\ metadataDir = <<>>
    /\ noBackground = <<>>
    /\ req \in {NewRequest("process", "server", filenames) : filenames \in SeqsUpTo(SharedNames, MaxBatch)}
    /\ ops = <<>>
    /\ response = NoResponse
    /\ served = {"process"}
    /\ gen = GenIdle
    /\ wait = NoWait
    /\ job = NoJob
    /\ calls = <<>>
    /\ timing = NoTiming
    /\ other = NoOther

NextBatches ==
    \/ ProcessImagesItem
    \/ ProcessImagesRespond
    \/ StartConcurrentBatch
    \/ ConcurrentBatchItem
    \/ ConcurrentBatchRespond

SpecBatches == InitBatches /\ [][NextBatches]_vars

\* one upload of any of the listed dimensions and formats, normalized by a
\* /process-images request for it
DimValues == {300, 400, 511, 512, 513, 600, 1365, 2000, 2047, 2048, 2049, 3000, 4096, 4097}

\* values of sharp's metadata.format
DimFormats == {"jpeg", "png", "webp", "tiff", "gif", "svg", "heif"}

DimImages ==
    {[id |-> "D", meta |-> TRUE, decode |-> TRUE, width |-> w, height |-> h, format |-> f, thumb |-> 1] :
        w \in DimValues, h \in DimValues, f \in DimFormats}

InitDims ==
    /\ uploads \in {(<<"a", ".jpg">> :> img) : img \in DimImages}
    /\ originals = <<>>
    /\ resized = <<>>
    /\ metadataDir = <<>>
    /\ noBackground = <<>>
    /\ req = NewRequest("process", "server", << <<"a", ".jpg">> >>)
    /\ ops = <<>>
    /\ response = NoResponse
    /\ served = {"process"}
    /\ gen = GenIdle
    /\ wait = NoWait
    /\ job = NoJob
    /\ calls = <<>>
    /\ timing = NoTiming
    /\ other = NoOther

NextDims ==
    \/ ProcessImagesItem
    \/ ProcessImagesRespond

SpecDims == InitDims /\ [][NextDims]_vars

\* a validation request served while a /process-images request over the
\* whole uploads directory can arrive and run
InitValidate ==
    /\ uploads = (<<"a", ".jpg">> :> ImgA)
    /\ originals = <<>>
    /\ resized = <<>>
    /\ metadataDir = <<>>
    /\ noBackground = <<>>
    /\ req = Idle
    /\ ops = <<>>
    /\ response = NoResponse
    /\ served = {}
    /\ gen = GenIdle
    /\ wait = NoWait
    /\ job = NoJob
    /\ calls = <<>>
    /\ timing = NoTiming
    /\ other = NoOther

NextValidate ==
    \/ ValidateUpload
    \/ ValidateInspect
    \/ ValidateUnlink
    \/ StartProcessImagesAll
    \/ ProcessImagesItem
    \/ ProcessImagesRespond

SpecValidate == InitValidate /\ [][NextValidate]_vars

\* a /process-images request followed by the listing of its output
NextList ==
    \/ StartProcessImages
    \/ StartProcessImagesAll
    \/ ProcessImagesItem
    \/ ProcessImagesRespond
    \/ GetProcessedImages

SpecList == Init /\ [][NextList]_vars

\* two different images uploaded under names that differ only in their
\* extension, a /process-images request for them accepted, and a
\* /remove-background request after it
ClashingUploads == (<<"a", ".jpg">> :> ImgA) @@ (<<"a", ".png">> :> ImgB)

InitClash ==
    /\ uploads = ClashingUploads
    /\ originals = <<>>
    /\ resized = <<>>
    /\ metadataDir = <<>>
    /\ noBackground = <<>>
    /\ req \in {NewRequest("process", "server", filenames) :
                    filenames \in SeqsUpTo(DOMAIN ClashingUploads, MaxBatch)}
    /\ ops = <<>>
    /\ response = NoResponse
    /\ served = {"process"}
    /\ gen = GenIdle
    /\ wait = NoWait
    /\ job = NoJob
    /\ calls = <<>>
    /\ timing = NoTiming
    /\ other = NoOther

NextClash ==
    \/ ProcessImagesItem
    \/ ProcessImagesRespond
    \/ StartRemoveBackground
    \/ StartRemoveBackgroundAll
    \/ RemoveBackgroundItem
    \/ RemoveBackgroundRespond

SpecClash == InitClash /\ [][NextClash]_vars

\* /process-images and /remove-background at once, over directories that are
\* empty or hold what an earlier /process-images of the same upload left
InitRace ==
    /\ uploads = UploadedFiles
    /\ \E earlier \in BOOLEAN :
          /\ originals = IF earlier
                         THEN [f \in {names.process : names \in RacingNames} |-> uploads[f]]
                         ELSE <<>>
          /\ resized = IF earlier
                       THEN [f \in {names.rembg : names \in RacingNames} |->
                               Normalized(uploads[(CHOOSE names \in RacingNames : names.rembg = f).process])]
                       ELSE <<>>
          /\ metadataDir = IF earlier
                           THEN [f \in {metadataFilename(names.process) : names \in RacingNames} |->
                                   LET filename == (CHOOSE names \in RacingNames :
                                                      metadataFilename(names.process) = f).process
                                   IN  MetadataRecord(filename, uploads[filename],
                                                      generateImageHash(uploads[filename]))]
                           ELSE <<>>
    /\ noBackground = <<>>
    /\ req = Idle
    /\ ops = <<>>
    /\ response = NoResponse
    /\ served = {}
    /\ gen = GenIdle
    /\ wait = NoWait
    /\ job = NoJob
    /\ calls = <<>>
    /\ timing = NoTiming
    /\ other = NoOther

NextRace ==
    \/ RaceStart
    \/ WriterNext
    \/ ReaderNext

SpecRace == InitRace /\ [][NextRace]_vars

\* either a /process-images batch or a generation request, step by step
InitSeq ==
    /\ uploads = UploadedFiles
    /\ originals = <<>>
    /\ resized = <<>>
    /\ metadataDir = <<>>
    /\ noBackground = <<>>
    /\ req = Idle
    /\ ops = <<>>
    /\ response = NoResponse
    /\ served = {}
    /\ gen = GenIdle
    /\ wait = NoWait
    /\ job = NoJob
    /\ calls = <<>>
    /\ timing = GenTiming
    /\ other = NoOther

NextSeq ==
    \/ StartProcessImages
    \/ StartProcessImagesAll
    \/ ProcessImagesItem
    \/ ProcessImagesRespond
    \/ NextGen

SpecSeq == InitSeq /\ [][NextSeq]_vars

\* ===================================================================== claims
ItemOps(k) == SelectSeq(ops, LAMBDA o : o.item = k)
ItemOpNames(k) == {ItemOps(k)[j].op : j \in DOMAIN ItemOps(k)}

\* C1: in /process-images and /remove-background every item handled leaves
\* exactly one result entry, for its own filename, which is a failure unless
\* the item ran to its last step; the loop goes on to the later items and the
\* request ends with the aggregate response (a 500 is only answered before
\* the first item); a missing input file alone gives processed=0, failed=1.
C1_ItemFailuresIsolated ==
    /\ req.kind \in {"process", "rembg"} =>
          /\ Len(req.results) = req.i
          /\ \A k \in 1..req.i :
                /\ req.results[k].filename = req.files[k]
                /\ req.results[k].success <=>
                      ItemOpNames(k) \cap {"saveMetadata", "mergeMetadata"} # {}
    /\ served \cap {"process", "rembg"} # {} /\ response.status = 500 => ops = <<>>
    /\ served \cap {"process", "rembg"} # {} /\ response.status = 200 /\ response.success =>
          /\ Len(response.results) = response.totalFiles
          /\ response.totalFiles = Len(response.filenames)
          /\ \A k \in 1..response.totalFiles :
                response.results[k].filename = response.filenames[k]
          /\ response.processed + response.failed = response.totalFiles
          /\ response.filenames = <<MissingFile>> =>
                response.processed = 0 /\ response.failed = 1

\* a thrown exception on the first item, the second still normalized, and the
\* aggregate answered
C1_Witness ==
    /\ response.status = 200 /\ response.success /\ response.endpoint = "process"
    /\ response.totalFiles = 2
    /\ ~response.results[1].success
    /\ response.results[1].error = "copyFile failed"
    /\ response.results[2].success
    /\ response.failed = 1

UploadHash(f) == generateImageHash(uploads[f])
Hashable(f) == f \in DOMAIN uploads /\ ~isImageCorrupted(uploads[f]) /\ UploadHash(f) # HashThrows
WriteOps == {"copyFile", "processImage", "writeResized", "saveMetadata"}

\* C3: within one /process-images batch, an item passes the gate exactly when
\* it is the first hashable item of the batch with its hash; every later item
\* with that hash is rejected as duplicate, carries the same hash, and no
\* backup, normalized file or metadata is written for it.
C3_FirstHashWins ==
    req.kind = "process" =>
        \A k \in 1..req.i :
            Hashable(req.files[k]) =>
                LET first == \A j \in 1..(k - 1) :
                                 Hashable(req.files[j]) => UploadHash(req.files[j]) # UploadHash(req.files[k])
                IN  /\ first <=> "copyFile" \in ItemOpNames(k)
                    /\ ~first =>
                          /\ req.results[k].success = FALSE
                          /\ req.results[k].error = "Duplicate image detected"
                          /\ req.results[k].hash = UploadHash(req.files[k])
                          /\ ItemOpNames(k) \cap WriteOps = {}
                          /\ \E j \in 1..(k - 1) :
                                /\ "copyFile" \in ItemOpNames(j)
                                /\ UploadHash(req.files[j]) = req.results[k].hash

\* a byte-identical copy under another filename, rejected after the original
C3_Witness ==
    /\ req.kind = "process" /\ req.i = 2
    /\ req.files[1] # req.files[2]
    /\ {req.files[1], req.files[2]} \subseteq DOMAIN uploads
    /\ uploads[req.files[1]] = uploads[req.files[2]]
    /\ req.results[1].success
    /\ ~req.results[2].success
    /\ req.results[2].error = "Duplicate image detected"
    /\ req.results[2].hash = req.results[1].hash

\* C4: an item whose metadata cannot be read is reported corrupted by
\* isImageCorrupted and rejected as a per-item failure; hashing, backup copy,
\* normalization and metadata write are never performed for it.
C4_CorruptedNeverProcessed ==
    req.kind = "process" =>
        \A k \in 1..req.i :
            (req.files[k] \in DOMAIN uploads /\ ~uploads[req.files[k]].meta) =>
                /\ req.results[k].success = FALSE
                /\ req.results[k].error = "Image file is corrupted or invalid"
                /\ ItemOpNames(k) = {"access", "isImageCorrupted"}
                /\ processedFilename(req.files[k]) \notin DOMAIN resized
                /\ req.files[k] \notin DOMAIN originals

\* a corrupted file rejected and the following file normalized
C4_Witness ==
    /\ req.kind = "process" /\ req.i = 2
    /\ req.files[1] \in DOMAIN uploads
    /\ ~uploads[req.files[1]].meta
    /\ ~req.results[1].success
    /\ req.results[1].error = "Image file is corrupted or invalid"
    /\ req.results[2].success

\* C9: in /remove-background the image is posted only right after a health
\* probe for the same item answered 2xx; when the probe fails or the service is
\* unreachable the item is recorded as "service not available" and no post is
\* made for it.
C9_PostOnlyAfterHealthyProbe ==
    req.kind = "rembg" =>
        \A j \in DOMAIN ops :
            /\ ops[j].op = "post" =>
                  /\ j > 1
                  /\ ops[j - 1].op = "health"
                  /\ ops[j - 1].item = ops[j].item
                  /\ ops[j - 1].arg = "ok"
            /\ (ops[j].op = "health" /\ ops[j].arg # "ok") =>
                  /\ "post" \notin ItemOpNames(ops[j].item)
                  /\ req.results[ops[j].item].success = FALSE
                  /\ req.results[ops[j].item].error = "rembg service not available"

\* C10: once /process-images has normalized an upload and /remove-background
\* has succeeded on the normalized file, the metadata record normalization
\* wrote for the upload holds the background-removal filename, duration and
\* timestamp (a failed read, parse or write of the record excepted).
C10_MergeReachesNormalizationRecord ==
    req.kind = "rembg" =>
        \A k \in 1..req.i : \A u \in DOMAIN uploads :
            ( /\ req.files[k] = processedFilename(u)
              /\ req.results[k].success
              /\ metadataFilename(u) \in DOMAIN metadataDir
              /\ \A j \in DOMAIN ops :
                    (ops[j].item = k /\ ops[j].op = "mergeMetadata") => ops[j].arg \in {"no record", "merged"} )
            => /\ {"noBackgroundFile", "backgroundRemovalTime", "backgroundRemovedAt"}
                     \subseteq DOMAIN metadataDir[metadataFilename(u)]
               /\ metadataDir[metadataFilename(u)].noBackgroundFile = outputFilename(req.files[k])

\* C2: in /generate-image and /generate-variations a failure while producing
\* one image becomes that image's failed result entry and the request still
\* answers the aggregate with the outcomes of all N images: once a prompt has
\* been submitted the request never ends with a 500.
C2_PerImageFailuresIsolated ==
    served = {"generate"} =>
        /\ response.status = 500 => \A k \in DOMAIN calls : calls[k].call # "prompt"
        /\ response.status = 200 => Len(response.results) = response.totalRequested

\* C5: waitForCompletion returns success only for a status that reports
\* completion and carries outputs, so the endpoints can always read
\* status.outputs after a success.
C5_SuccessHasOutputs ==
    wait.outcome = "success" =>
        wait.status.completed /\ wait.status.outputs # "absent"

\* C6: a poll that shows an error status ends the wait as a failure, never as
\* a success, whatever else the history entry carries.
C6_ErrorStatusFails ==
    (wait.outcome \in {"success", "failure"} /\ wait.status.status_str = "error")
        => wait.outcome = "failure"

C7_Bounded ==
    /\ wait.polls * 2000 < wait.maxWaitTime + 2000
    /\ wait.outcome \in {"none", "success", "failure", "timeout"}
    /\ wait.outcome = "timeout" => wait.elapsed >= wait.maxWaitTime
    /\ gen.kind = "wait" => (gen.pc = "waited" <=> wait.outcome # "none")
    /\ calls = <<>>

\* C7: every call of waitForCompletion ends with exactly one of success,
\* failure or timeout, after at most ceil(maxWaitTime / 2000) polls; the
\* timeout is returned only once the budget is used up; after the outcome is
\* returned nothing more is polled; no other request (no cancel) goes to the
\* engine.
C7_WaitTerminates ==
    /\ []C7_Bounded
    /\ [][wait.outcome # "none" => wait' = wait]_vars
    /\ (gen.kind = "wait") ~> (gen.pc = "waited")

\* the job never reports and the call times out after ceil(3000 / 2000) polls
C7_Witness ==
    /\ gen.kind = "wait" /\ gen.pc = "waited"
    /\ wait.outcome = "timeout"
    /\ wait.maxWaitTime = 3000
    /\ wait.polls = 2
    /\ job.state = "queued"

\* C8: when the health check at the start of a generation request fails, the
\* request ends with the 503 response and nothing else is sent to the engine:
\* no upload, no prompt, no status poll, no download.
C8_UnhealthyEngineAborts ==
    \A k \in DOMAIN calls :
        (calls[k].call = "system_stats" /\ calls[k].outcome # "ok") =>
            /\ k = 1 /\ Len(calls) = 1
            /\ response.status = 503
            /\ gen = GenIdle
            /\ wait = NoWait
            /\ job = NoJob

\* an unreachable engine answered with the 503
C8_Witness ==
    /\ served = {"generate"}
    /\ response.status = 503
    /\ Len(calls) = 1
    /\ calls[1].outcome = "unreachable"

\* C11: in /remove-background, once the segmentation result of an item has been
\* written, the item's result is a success whatever the metadata merge does
\* (no record, unreadable, unparsable, rewrite failed, merged): the merge is
\* attempted, the loop goes on, and the request answers the aggregate.
C11_MergeFailureNotEscalated ==
    /\ req.kind = "rembg" =>
          \A j \in DOMAIN ops :
              (ops[j].op = "writeOutput" /\ ops[j].arg = "written") =>
                  /\ ops[j].item <= Len(req.results)
                  /\ req.results[ops[j].item].success
                  /\ req.results[ops[j].item].filename = req.files[ops[j].item]
                  /\ outputFilename(req.files[ops[j].item]) \in DOMAIN noBackground
                  /\ j < Len(ops)
                  /\ ops[j + 1].op = "mergeMetadata"
                  /\ ops[j + 1].item = ops[j].item
                  /\ ops[j + 1].arg \in MergeOutcomes \cup {"no record"}
    /\ (served = {"process", "rembg"} /\ req.kind = "idle" /\ ops # <<>>) =>
          /\ response.status = 200
          /\ response.success
          /\ \A j \in DOMAIN ops :
                 (ops[j].op = "mergeMetadata") => response.results[ops[j].item].success

\* a record that exists but does not parse on the first item, no record at all
\* on the second, both items successful in the aggregate
C11_Witness ==
    /\ served = {"process", "rembg"} /\ req.kind = "idle"
    /\ response.status = 200 /\ response.success /\ response.endpoint = "rembg"
    /\ response.totalFiles = 2 /\ response.processed = 2
    /\ \E j, k \in DOMAIN ops :
          /\ ops[j].op = "mergeMetadata" /\ ops[j].item = 1 /\ ops[j].arg = "unparsable"
          /\ ops[k].op = "mergeMetadata" /\ ops[k].item = 2 /\ ops[k].arg = "no record"

Prompts == SelectSeq(calls, LAMBDA c : c.call = "prompt")

C12_SeedsInOrder ==
    (gen.kind = "image" /\ gen.seed # -1) =>
        /\ Len(Prompts) = IF gen.pc \in {"wait", "sleep", "waited"} THEN gen.i + 1 ELSE gen.i
        /\ \A k \in DOMAIN Prompts : Prompts[k].seed = gen.seed + (k - 1)
        /\ Len(gen.results) = gen.i
        /\ \A k \in DOMAIN gen.results :
              /\ gen.results[k].index = k
              /\ gen.results[k].success => gen.results[k].seed = Prompts[k].seed

\* C12: in /generate-image with a pinned seed s and count N, the workflow
\* submitted for the i-th image (i = 0..N-1) carries seed s+i, submissions are
\* made in increasing i, each successful result reports the seed submitted for
\* it, and the aggregate answers those results as they are.
C12_PinnedSeedsIncrement ==
    /\ []C12_SeedsInOrder
    /\ [][(gen.kind = "image" /\ gen'.kind = "idle" /\ response'.status = 200)
              => response'.results = gen.results]_vars

\* seed 42 and count 3: seeds 42, 43, 44 submitted and reported in that order
C12_Witness ==
    /\ gen.kind = "image" /\ gen.seed = 42 /\ gen.count = 3 /\ gen.i = 3
    /\ Len(Prompts) = 3
    /\ <<Prompts[1].seed, Prompts[2].seed, Prompts[3].seed>> = <<42, 43, 44>>
    /\ \A k \in 1..3 : gen.results[k].success /\ gen.results[k].seed = 41 + k

IsDuplicateRejection(r) == ~r.success /\ r.error = "Duplicate image detected"

\* C13: in every aggregate response of /process-images and /remove-background,
\* results holds exactly one entry per input filename, in input order;
\* processed + failed = totalFiles; and for /process-images duplicates is the
\* length of duplicateFiles, at most failed, with duplicateFiles being exactly
\* the filenames whose result is the duplicate rejection, in input order.
C13_AggregateConsistent ==
    (served \cap {"process", "rembg"} # {} /\ response.status = 200 /\ response.success) =>
        /\ Len(response.results) = response.totalFiles
        /\ Len(response.filenames) = response.totalFiles
        /\ \A k \in 1..response.totalFiles : response.results[k].filename = response.filenames[k]
        /\ response.processed = Cardinality({k \in 1..response.totalFiles : response.results[k].success})
        /\ response.processed + response.failed = response.totalFiles
        /\ response.endpoint = "process" =>
              LET rejected == SelectSeq(response.results, IsDuplicateRejection)
              IN  /\ response.duplicates = Len(response.duplicateFiles)
                  /\ response.duplicates <= response.failed
                  /\ response.duplicateFiles = [k \in 1..Len(rejected) |-> rejected[k].filename]

\* the whole uploads directory in ascending order: a.jpg and t.tiff
\* normalized, b.png rejected as the duplicate of a.jpg, three more failures
C13_Witness ==
    /\ response.status = 200 /\ response.success /\ response.endpoint = "process"
    /\ response.totalFiles = 6
    /\ response.filenames[1] = <<"a", ".jpg">>
    /\ response.processed = 2
    /\ response.failed = 4
    /\ response.duplicates = 1
    /\ response.duplicateFiles = << <<"b", ".png">> >>

\* the filenames handled so far by the first and by the second invocation,
\* with their results
FirstBatch ==
    IF req.kind = "process" THEN [files |-> SubSeq(req.files, 1, req.i), results |-> req.results]
    ELSE IF response.status = 200 THEN [files |-> response.filenames, results |-> response.results]
    ELSE [files |-> <<>>, results |-> <<>>]

SecondBatch ==
    IF other.kind = "process" THEN [files |-> SubSeq(other.files, 1, other.i), results |-> other.results]
    ELSE [files |-> <<>>, results |-> <<>>]

RejectedWithinBatch(batch) ==
    /\ Len(batch.results) = Len(batch.files)
    /\ \A k \in DOMAIN batch.files :
          IsDuplicateRejection(batch.results[k]) <=>
              /\ Hashable(batch.files[k])
              /\ \E j \in 1..(k - 1) :
                    Hashable(batch.files[j]) /\ UploadHash(batch.files[j]) = UploadHash(batch.files[k])

\* C14: the set of seen hashes belongs to one /process-images invocation: an
\* item is rejected as duplicate exactly when an earlier item of the same batch
\* has its hash, whatever an earlier or a concurrently running batch has
\* processed; the same image submitted in two batches is rejected in neither.
C14_HashesScopedToBatch ==
    /\ RejectedWithinBatch(FirstBatch)
    /\ RejectedWithinBatch(SecondBatch)

\* the second batch normalizes b.png, the byte-identical copy of a.jpg, after
\* the first batch has normalized a.jpg and before it goes on to its own b.png
C14_Witness ==
    /\ req.kind = "process" /\ req.files = << <<"a", ".jpg">>, <<"b", ".png">> >> /\ req.i = 1
    /\ req.results[1].success
    /\ other.kind = "process" /\ other.files = << <<"b", ".png">> >> /\ other.i = 1
    /\ other.results[1].success
    /\ other.results[1].hash = req.results[1].hash

Max(a, b) == IF a > b THEN a ELSE b

\* the upload of the single-image request and its result once handled
TheUpload == uploads[<<"a", ".jpg">>]
TheResult == IF req.kind = "process" THEN req.results[1] ELSE response.results[1]
Handled == (req.kind = "process" /\ req.i = 1) \/ (req.kind = "idle" /\ response.status = 200)

\* C15: for an accepted image with longer side L and shorter side S the
\* normalized image has longer side min(L, 2048) and shorter side
\* round(S * min(L, 2048) / L), on the same axes as in the input: no upscaling
\* when L <= 2048 (same width and height), and when L > 2048 the longer side is
\* exactly 2048 with the shorter side within half a pixel of the exact ratio
\* (3000x2000 gives 2048x1365).
C15_ResizeDimensions ==
    (Handled /\ TheResult.success) =>
        LET w == TheUpload.width
            h == TheUpload.height
            L == Max(w, h)
            S == Min(w, h)
            pw == TheResult.processed.width
            ph == TheResult.processed.height
        IN  /\ Max(pw, ph) = Min(L, 2048)
            /\ Min(pw, ph) = (2 * S * Min(L, 2048) + L) \div (2 * L)
            /\ w >= h => pw >= ph
            /\ h >= w => ph >= pw
            /\ L <= 2048 => pw = w /\ ph = h
            /\ L > 2048 =>
                  /\ Max(pw, ph) = 2048
                  /\ 2 * (Min(pw, ph) * L - S * 2048) <= L
                  /\ 2 * (S * 2048 - Min(pw, ph) * L) <= L
            /\ (w = 3000 /\ h = 2000) => (pw = 2048 /\ ph = 1365)
            /\ resized[<<"a", "_processed", ".jpg">>].width = pw
            /\ resized[<<"a", "_processed", ".jpg">>].height = ph

\* a 2000x3000 portrait normalized to 1365x2048
C15_Witness ==
    /\ Handled /\ TheResult.success
    /\ TheUpload.width = 2000 /\ TheUpload.height = 3000
    /\ TheResult.processed.width = 1365 /\ TheResult.processed.height = 2048

ValidationErrors == {"Invalid image dimensions", "Image too small", "Invalid format"}

\* C16: processImage, once called for an item, rejects the image exactly when its input shorter side is
\* below 512 or its format is outside {jpeg, png, webp, tiff, gif}; the
\* rejection is a returned failure that becomes the item's result, taken before
\* any resize or output write (400x300 fails as too small, nothing is written
\* to the resized directory); the output's dimensions are never checked
\* (4096x512 is accepted although its output is 2048x256).
C16_ValidationOnInputOnly ==
    (Handled /\ "processImage" \in ItemOpNames(1)) =>
        LET w == TheUpload.width
            h == TheUpload.height
            bad == Min(w, h) < 512 \/ TheUpload.format \notin {"jpeg", "png", "webp", "tiff", "gif"}
            rejected == ~TheResult.success /\ TheResult.error \in ValidationErrors
        IN  /\ rejected <=> bad
            /\ rejected =>
                  /\ "writeResized" \notin ItemOpNames(1)
                  /\ resized = <<>>
                  /\ metadataDir = <<>>
            /\ (w = 400 /\ h = 300) => (rejected /\ TheResult.error = "Image too small")
            /\ (~bad /\ "writeResized" \in ItemOpNames(1)) => TheResult.success
            /\ (w = 4096 /\ h = 512 /\ ~bad /\ TheResult.success) =>
                  (TheResult.processed.width = 2048 /\ TheResult.processed.height = 256)

\* a 4096x512 image accepted and normalized to 2048x256, below the minimum
C16_Witness ==
    /\ Handled /\ TheResult.success
    /\ TheUpload.width = 4096 /\ TheUpload.height = 512
    /\ TheResult.processed.height = 256
    /\ TheResult.processed.height < MIN_SIZE

\* the staging directories in the order of the lookup
SourceDirs == <<"no-background", "resized", "originals", "uploads">>

Holds(k, filename) ==
    CASE k = 1 -> filename \in DOMAIN noBackground
      [] k = 2 -> filename \in DOMAIN resized
      [] k = 3 -> filename \in DOMAIN originals
      [] k = 4 -> filename \in DOMAIN uploads

C17_FirstExistingSource ==
    /\ \A c \in DOMAIN calls :
          calls[c].call = "upload" =>
              \E k \in 1..4 :
                  /\ calls[c].source[1] = SourceDirs[k]
                  /\ Holds(k, calls[c].source[2])
                  /\ \A j \in 1..(k - 1) : ~Holds(j, calls[c].source[2])
    /\ gen.kind = "variations" =>
          \A c \in DOMAIN calls : calls[c].call = "upload" => calls[c].source[2] = gen.filename
    /\ response.status = 404 =>
          /\ gen = GenIdle
          /\ Len(calls) = 1
          /\ calls[1].call = "system_stats"

\* C17: in /generate-variations the source image uploaded to the engine is
\* the file of the first of the no-background, resized, originals and uploads
\* directories that holds the requested name; when none holds it the request
\* ends with the single 404 response and no upload and no prompt is sent.
C17_SourceLookup ==
    /\ []C17_FirstExistingSource
    /\ [][(gen.pc = "source" /\ \A k \in 1..4 : ~Holds(k, gen.filename))
              => (response'.status = 404 /\ gen' = GenIdle /\ calls' = calls)]_vars
    /\ [][(gen.pc = "source" /\ \E k \in 1..4 : Holds(k, gen.filename))
              => (response' = response /\ gen'.pc = "upload")]_vars

\* t.tiff is held by all four directories and uploaded from no-background
C17_Witness ==
    /\ gen.kind = "variations" /\ gen.filename = <<"t", ".tiff">>
    /\ \A k \in 1..4 : Holds(k, gen.filename)
    /\ Len(calls) = 2
    /\ calls[2].call = "upload"
    /\ calls[2].source = <<"no-background", <<"t", ".tiff">> >>

ValidationAnswered == other.kind = "validate" /\ other.pc = "done" /\ other.file # <<>>

DerivedArtifacts(filename) ==
    ({filename} \cap DOMAIN originals)
        \cup ({processedFilename(filename)} \cap DOMAIN resized)
        \cup ({metadataFilename(filename)} \cap DOMAIN metadataDir)

\* C18: once /validate-image has responded (valid, corrupted or internal
\* error), the submitted file is no longer in the uploads directory and no
\* backup, normalized file or metadata record derived from it exists, also
\* when a /process-images request over all uploads runs concurrently.
C18_ValidationLeavesNoTrace ==
    ValidationAnswered =>
        /\ other.file \notin DOMAIN uploads
        /\ DerivedArtifacts(other.file) = {}

\* C19: in /generate-variations a prompt given by the caller is submitted
\* unchanged; without one the submitted prompt is the clothing template of the
\* requested style for studio, lifestyle and elegant and the studio template
\* for any other style, so it is always the caller's text or a template.
C19_PromptDefault ==
    gen.kind = "variations" =>
        \A k \in DOMAIN Prompts :
            /\ Prompts[k].text =
                  IF gen.prompt # "undefined" THEN gen.prompt
                  ELSE IF gen.style \in {"studio", "lifestyle", "elegant"}
                       THEN getFashionPrompts[gen.style]
                  ELSE getFashionPrompts["studio"]
            /\ Prompts[k].text \in {gen.prompt} \cup {getFashionPrompts[st] : st \in DOMAIN getFashionPrompts}

\* C20: after /process-images has normalized k images, GET /processed-images
\* answers 200 with totalProcessed = k and a list of those k normalized files.
C20_ProcessedImagesListed ==
    "list" \in served =>
        /\ response.status = 200
        /\ response.success
        /\ response.totalProcessed = Cardinality(DOMAIN resized)
        /\ {response.images[k].filename : k \in DOMAIN response.images} = DOMAIN resized

Kept(dir, dirAfter) == \A f \in DOMAIN dir : f \in DOMAIN dirAfter /\ dirAfter[f] = dir[f]

\* C21: once an image artifact exists in a stage directory (original backup,
\* normalized, background-removed), no later step replaces its content.
C21_ArtifactsNeverOverwritten ==
    [][Kept(originals, originals') /\ Kept(resized, resized') /\ Kept(noBackground, noBackground')]_vars

\* C22: every item /process-images reports as successful has its metadata
\* record on disk at the metadata path of its result, holding the item's
\* original and processed filenames, hash and dimensions.
C22_SuccessHasMetadataRecord ==
    req.kind = "process" =>
        \A k \in 1..req.i :
            req.results[k].success =>
                /\ req.results[k].paths.metadata[2] \in DOMAIN metadataDir
                /\ LET record == metadataDir[req.results[k].paths.metadata[2]]
                   IN  /\ record.originalFile = req.files[k]
                       /\ record.processedFile = req.results[k].paths.processed[2]
                       /\ record.hash = req.results[k].hash
                       /\ record.originalSize = req.results[k].original
                       /\ record.processedSize = req.results[k].processed

\* a filename without its extension
Base(filename) == SubSeq(filename, 1, Len(filename) - 1)

\* C23: for every upload /process-images accepts, whatever its format and
\* extension, the normalized artifact is <base>_processed.jpg and the metadata
\* record <base>_meta.json; the record is never written under an image
\* filename and the normalized JPEG never under the upload's own name.
C23_DerivedNames ==
    req.kind = "process" =>
        \A k \in 1..req.i :
            req.results[k].success =>
                /\ req.results[k].paths.processed[2] = Base(req.files[k]) \o <<"_processed", ".jpg">>
                /\ req.results[k].paths.metadata[2] = Base(req.files[k]) \o <<"_meta", ".json">>
                /\ req.results[k].paths.processed[2] # req.files[k]
                /\ req.files[k] \notin DOMAIN metadataDir

RemovalFields == {"noBackgroundFile", "backgroundRemovalTime", "backgroundRemovedAt"}

\* C24: a step of /remove-background changes at most the record of the item
\* it handles, only when its merge succeeds, and then the record written back
\* is the record read with the three background-removal fields added or
\* replaced and every other field as it was; no record appears or disappears.
C24_MergeChangesThreeFields ==
    [][req.kind = "rembg" =>
          /\ DOMAIN metadataDir' = DOMAIN metadataDir
          /\ \A m \in DOMAIN metadataDir :
                metadataDir'[m] # metadataDir[m] =>
                    /\ req'.i = req.i + 1
                    /\ m = metaFilename(req.files[req'.i])
                    /\ ops'[Len(ops')] = [item |-> req'.i, op |-> "mergeMetadata", arg |-> "merged"]
                    /\ DOMAIN metadataDir'[m] = DOMAIN metadataDir[m] \cup RemovalFields
                    /\ \A key \in DOMAIN metadataDir[m] \ RemovalFields :
                          metadataDir'[m][key] = metadataDir[m][key]
                    /\ metadataDir'[m].noBackgroundFile = outputFilename(req.files[req'.i])
          /\ (req'.i = req.i + 1 /\ ops'[Len(ops')].op = "mergeMetadata" /\ ops'[Len(ops')].arg = "merged") =>
                RemovalFields \subseteq DOMAIN metadataDir'[metaFilename(req.files[req'.i])]]_vars

\* the record normalization wrote for t.tiff, merged by /remove-background:
\* the eight fields of normalization and the three of the removal
C24_Witness ==
    /\ req.kind = "rembg" /\ req.i >= 1
    /\ \E j \in DOMAIN ops : ops[j].op = "mergeMetadata" /\ ops[j].arg = "merged"
    /\ <<"t", ".tiff">> \in DOMAIN metadataDir
    /\ DOMAIN metadataDir[<<"t", ".tiff">>] = DOMAIN MetadataRecord(<<"t", ".tiff">>, ImgTiff, Md5(3)) \cup RemovalFields
    /\ metadataDir[<<"t", ".tiff">>].hash = Md5(3)
    /\ metadataDir[<<"t", ".tiff">>].noBackgroundFile = <<"t", ".tiff">>

C25_OneItemAtATime ==
    /\ req.kind = "process" =>
          /\ Len(req.results) = req.i
          /\ \A j \in DOMAIN ops : ops[j].item <= req.i
          /\ \A j, k \in DOMAIN ops : j < k => ops[j].item <= ops[k].item
    /\ gen.kind \in {"image", "variations"} =>
          /\ Len(Prompts) <= Len(gen.results) + 1
          /\ gen.pc \in {"wait", "sleep", "waited"} <=> Len(Prompts) = Len(gen.results) + 1
          /\ wait # NoWait <=> gen.pc \in {"wait", "sleep", "waited"}

\* C25: within one batch request the items are handled strictly one after
\* another: every call made for item i+1 comes after item i's outcome has been
\* appended to the results, and in a generation request prompt i+1 is
\* submitted only once the wait on prompt i has returned and its outcome has
\* been recorded.
C25_StrictlySequential ==
    /\ []C25_OneItemAtATime
    /\ [][(req.kind = "process" /\ Len(ops') > Len(ops)) =>
              /\ Len(req'.results) = Len(req.results) + 1
              /\ \A j \in (Len(ops) + 1)..Len(ops') : ops'[j].item = Len(req'.results)]_vars
    /\ [][(gen.kind \in {"image", "variations"} /\ Len(Prompts') > Len(Prompts)) =>
              /\ gen.pc = "loop"
              /\ wait = NoWait
              /\ Len(gen.results) = Len(Prompts)]_vars

\* two items normalized: the seven calls of item 1, then the seven of item 2
C25_Witness ==
    /\ req.kind = "process" /\ req.i = 2
    /\ req.results[1].success /\ req.results[2].success
    /\ Len(ops) = 14
    /\ \A j \in 1..7 : ops[j].item = 1 /\ ops[j + 7].item = 2

\* C26: nothing serializes the requests on the staging directories: while
\* /process-images is in the middle of writing the normalized file, a
\* /remove-background request that is about to read that file reads it,
\* partially written; likewise for the metadata record, which the merge then
\* finds unparsable; and at every point each unfinished request has its next
\* call enabled, whatever the other request is in the middle of.
C26_NothingSerializesRequests ==
    /\ (/\ req.kind = "process" /\ req.pc = "encoding"
        /\ other.kind = "rembg" /\ other.pc = "readFile"
        /\ other.filename = processedFilename(req.files[1]))
          => ENABLED (ReaderReadFile /\ ~other'.input.decode)
    /\ (/\ req.kind = "process" /\ req.pc = "saving"
        /\ other.kind = "rembg" /\ other.pc = "mergeRead"
        /\ metaFilename(other.filename) = metadataFilename(req.files[1]))
          => ENABLED (ReaderMergeRead /\ other'.merge = "unparsable")
    /\ (req.kind = "process" /\ req.pc # "done") => ENABLED WriterNext
    /\ (other.kind = "rembg" /\ other.pc # "done") => ENABLED ReaderNext

\* the reader has sent a partially written normalized file to the service,
\* stored its answer, and then found the metadata record partially written
C26_Witness ==
    /\ other.kind = "rembg" /\ other.pc = "done"
    /\ ~other.input.decode
    /\ other.merge = "unparsable"
    /\ other.results[1].success
    /\ req.kind = "process" /\ req.pc = "saving"

\* C27: in a /process-images batch every item rejected as a duplicate has an
\* earlier item of the same batch with the same hash that was reported as
\* successfully processed; an item that ended as a failure holds no hash
\* against later items.
C27_DuplicateOfSuccess ==
    req.kind = "process" =>
        \A k \in 1..req.i :
            IsDuplicateRejection(req.results[k]) =>
                \E j \in 1..(k - 1) :
                    /\ req.results[j].success
                    /\ req.results[j].hash = req.results[k].hash

\* C28: when the engine marks the job completed with outputs strictly before
\* maxWaitTime has elapsed since waitForCompletion was called, and no poll or
\* timer is late, the call does not end with the timeout failure.
C28_CompletedInTimeSucceeds ==
    ( /\ gen.kind = "wait"
      /\ job.state = "done"
      /\ job.entry.completed /\ job.entry.outputs = "images"
      /\ job.at < wait.maxWaitTime )
        => wait.outcome # "timeout"

\* C29: handling an item that /process-images reports as failed writes no
\* file into the originals, resized or metadata directories: the three
\* directories are after the item as they were before it.
C29_FailedItemWritesNothing ==
    [][( /\ req.kind = "process"
         /\ req'.kind = "process"
         /\ req'.i = req.i + 1
         /\ ~req'.results[req'.i].success )
        => /\ originals' = originals
           /\ resized' = resized
           /\ metadataDir' = metadataDir]_vars

\* every poll made in this state fails: the job is not in the history, or the
\* history cannot be fetched
PollFails == job.state # "done" \/ "ok" \notin timing.fetches

\* C30: during waitForCompletion a status poll that fails (network error,
\* non-2xx answer, or job id absent from the history) leaves the wait pending:
\* the wait ends as success or failure only on a poll that found the job, a
\* failed poll is followed by the 2 s sleep and the next poll, and when every
\* poll fails the call ends with the timeout failure, once the budget is used
\* up.
C30_FailedPollsArePending ==
    /\ [](wait.outcome \in {"success", "failure"} => ~PollFails)
    /\ [][(gen.pc = "wait" /\ PollFails /\ wait.elapsed < wait.maxWaitTime /\ wait' # wait)
              => /\ wait'.outcome = "none"
                 /\ wait'.polls = wait.polls + 1
                 /\ gen'.pc = "sleep"]_vars
    /\ [][(gen.pc = "sleep" /\ wait' # wait)
              => /\ gen'.pc = "wait"
                 /\ wait'.outcome = "none"
                 /\ (wait'.elapsed - wait.elapsed) \in {pollInterval + o : o \in timing.overshoots}]_vars
    /\ [](wait.outcome = "timeout" => wait.elapsed >= wait.maxWaitTime)
    /\ (gen.kind = "wait" /\ "ok" \notin timing.fetches) ~> (wait.outcome = "timeout")

\* the job is in the history, no poll gets through, and the call times out
\* after the two polls that fit into 3000 ms
C30_Witness ==
    /\ gen.kind = "wait" /\ gen.pc = "waited"
    /\ "ok" \notin timing.fetches
    /\ job.state = "done"
    /\ wait.maxWaitTime = 3000
    /\ wait.polls = 2
    /\ wait.outcome = "timeout"

====
